---- MODULE Spec2Model ----
(***************************************************************************)
(* ParticleVerse: GPU particle physics (computeShaders.ts), the vertex     *)
(* stage (particleShaders), the per-frame transition controller            *)
(* (ParticleSystem), the Scene data flow and the audio analyzer.           *)
(*                                                                         *)
(* Numbers.  Floating point values are carried as fixed point integers:    *)
(*   - lengths and displacements in ticks, PosScale ticks per world unit;  *)
(*   - velocities and forces in PosScale*VelScale ticks per world unit;    *)
(*   - unit vectors, falloff, noise, audio bands and progress scalars in   *)
(*     thousandths;                                                        *)
(*   - time steps in 1/600 s (10 = 1/60 s, 30 = 0.05 s);                   *)
(*   - attraction / repulsion gains and speeds in tenths.                  *)
(* Divisions truncate toward zero.                                         *)
(***************************************************************************)
EXTENDS Integers, Sequences, FiniteSets, TLC

VARIABLES
  \* ---- physics textures and velocity-pass uniforms (one texel) ----
  shaderVersion,      \* 1 = first shader pair of computeShaders.ts, 2 = second
  velocity,           \* textureVelocity at this texel
  displacement,       \* texturePosition at this texel
  originalPos,        \* textureOriginal at this texel
  physLeftHand,       \* velocity uniform uLeftHand
  physRightHand,      \* velocity uniform uRightHand
  physHandRadius,     \* velocity uniform uHandRadius (world units)
  physRepulsion,      \* velocity uniform uRepulsionForce (tenths)
  physAttraction,     \* velocity uniform uAttractionForce (tenths)
  physBass,           \* velocity uniform uAudioBass (thousandths)
  physGesture,        \* uGesture as the velocity shader reads it
  physFrames,         \* number of compute() steps taken
  initialDisplacement,\* displacement the run started from
  lastClamped,        \* the last position pass rescaled the displacement
  \* ---- store (useAppStore) ----
  currentEffect, effectIntensity, transitionSpeed,
  leftHand, rightHand, handEnabled, gestureTransitionSpeed,
  audioData, audioEnabled,
  \* ---- ParticleSystem refs ----
  effectTransition,        \* effectTransitionRef (thousandths)
  previousEffect,          \* previousEffectRef
  previousEffectIntensity, \* previousEffectIntensityRef
  effectTransitionStage,   \* effectTransitionStageRef
  targetEffect,            \* targetEffectRef
  transitionProgress,      \* transitionProgressRef (thousandths)
  smoothLeftHand, smoothRightHand,
  gpuComputeRef,           \* NULL or the state of the referenced renderer
  gpuVarsRef,              \* posVarRef / velVarRef: NULL, "current" or "stale"
  gpuEnabled,              \* gpuEnabledRef
  gpuLeaked,               \* renderers created, never disposed, no longer referenced
  \* ---- shading material uniforms ----
  uEffect, uEffectIntensity, uLeftHand, uRightHand, uTransitionProgress,
  uUseGPGPU, texturePhysics, uAudio,
  \* ---- frame bookkeeping ----
  frameTick,               \* flips on every useFrame callback
  gpuStepped,              \* state of the renderer stepped by the last frame, or NULL
  \* ---- Scene ----
  sourceType, sourceData, countSetting,
  currentData, targetData,  \* NoData or [pos |-> <<..>>, col |-> <<..>>]
  previousSource,           \* previousSourceRef: NULL or <<type, data>>
  pendingGen,               \* image generations awaiting load
  timerRemaining,           \* ms left on the promotion timer (when targetData # NoData)
  isLoading, errorMsg,
  \* ---- AudioAnalyzer ----
  audioRenderDue,           \* audioSettings changed, render and effect not yet run
  mountedRef,               \* mountedRef.current
  analyserRef,              \* analyserRef / frequencyDataRef are set
  audioCleanupDue,          \* the last effect run returned its cleanup
  pendingOpen,              \* initAudio calls awaiting the source, context open
  pendingClosed,            \* initAudio calls awaiting the source, context closed
  rafScheduled,             \* analyze callbacks scheduled with requestAnimationFrame
  animationRefLive,         \* animationRef.current names a scheduled callback
  \* ---- one shader invocation, for the direction normalisations ----
  normStage,                \* "input", "vertex" or "velocity"
  normPos, normHand, normEffect, normGesture,
  normResult,               \* displaced position / hand force
  normZero,                 \* normalize() was applied to a zero-length vector
  \* ---- colour mode and lighting transitions ----
  colorMode,                \* visualSettings.colorMode
  prevColorMode,            \* prevColorModeRef
  currentColorMode,         \* currentColorModeRef
  colorBlend,               \* colorBlendRef, thousandths
  lightingMode,             \* visualSettings.lightingSettings (mode stands for the four fields)
  previousLightingMode,     \* previousLighting*Ref
  lightingTransition,       \* lightingTransitionRef, thousandths
  \* ---- two vertex invocations of the rotate effect ----
  rotBase,                  \* basePosition of the two particles, ticks
  rotAxes,                  \* uRotateAxisX, uRotateAxisY, uRotateAxisZ
  rotAngle,                 \* <<cos, sin>> of uTime * uRotateSpeed * intensity, thousandths
  rotTurbulence,            \* uTurbulence, tenths
  rotOut,                    \* the two transformed positions, <<>> before the invocations
  \* ---- gesture state of the store ----
  currentGesture,           \* currentGesture, set by the hand tracker
  gestureEnabled,            \* handSettings.gestureEnabled
  \* ---- client-side rate limiter ----
  requestCounts,            \* the Map key -> {count, resetTime}
  now,                      \* Date.now()
  rlMaxRequests,            \* maxRequests the limiter is called with
  rlWindowMs,               \* windowMs the limiter is called with
  rlGranted,                \* calls per key that returned true since its window opened
  rlResult,                  \* <<key, result>> of the last call, <<>> before any
  \* ---- one call of sanitizePath ----
  pathInput,                \* the argument, a sequence of characters
  pathOutput,                \* the result, NULL before the call
  \* ---- animation frames that come late ----
  frameGap,                  \* ms the browser has gone without an animation frame when a timer ran, 0 when frames are on time
  \* ---- hand tracker results ----
  trackerResults,            \* the hands of the most recent results callback, <<>> when none
  \* ---- the two render targets of the displacement variable ----
  currentTextureIndex,      \* currentTextureIndex of the computation renderer (0 or 1)
  writtenIndex,             \* render target the latest compute() rendered into, -1 before any
  texturePhysicsIndex,      \* render target the texturePhysics uniform refers to, -1 while null
  frameOps,                  \* GPU work the latest frame issued, in order
  \* ---- the float effect's shared offset ----
  floatOffsetFresh,          \* TRUE when uFloatOffset was computed from the time of the latest frame
  \* ---- texture coordinates of the geometry and the original-position texture ----
  geoCount,                 \* count = positions.length / 3
  texCoords,                \* texCoord attribute: per particle <<u, v>> in units of 1 / (2 texSize), <<>> before the geometry is built
  origTexels                \* textureOriginal: per texel (row-major) the particle written there, -1 where inert, <<>> before it is filled

physVars == <<shaderVersion, velocity, displacement, originalPos, physLeftHand,
              physRightHand, physHandRadius, physRepulsion, physAttraction,
              physBass, physGesture, physFrames, initialDisplacement,
              lastClamped>>

storeVars == <<currentEffect, effectIntensity, transitionSpeed, leftHand,
               rightHand, handEnabled, gestureTransitionSpeed, audioData,
               audioEnabled>>

effectVars == <<effectTransition, previousEffect, previousEffectIntensity,
                effectTransitionStage, targetEffect>>

gpuVars == <<gpuComputeRef, gpuVarsRef, gpuEnabled, gpuLeaked>>

uniformVars == <<uEffect, uEffectIntensity, uLeftHand, uRightHand,
                 uTransitionProgress, uUseGPGPU, texturePhysics, uAudio>>

frameVars == <<transitionProgress, smoothLeftHand, smoothRightHand, frameTick,
               gpuStepped>>

sceneVars == <<sourceType, sourceData, countSetting, currentData, targetData,
               previousSource, pendingGen, timerRemaining, isLoading, errorMsg>>

audioVars == <<audioRenderDue, mountedRef, analyserRef, audioCleanupDue,
               pendingOpen, pendingClosed, rafScheduled, animationRefLive>>

normVars == <<normStage, normPos, normHand, normEffect, normGesture, normResult,
              normZero>>

visualVars == <<colorMode, prevColorMode, currentColorMode, colorBlend,
                lightingMode, previousLightingMode, lightingTransition>>

rotVars == <<rotBase, rotAxes, rotAngle, rotTurbulence, rotOut>>

gestureVars == <<currentGesture, gestureEnabled>>

rateVars == <<requestCounts, now, rlMaxRequests, rlWindowMs, rlGranted,
              rlResult>>

pathVars == <<pathInput, pathOutput>>

clockVars == <<frameGap>>

trackerVars == <<trackerResults>>

targetVars == <<currentTextureIndex, writtenIndex, texturePhysicsIndex, frameOps>>

floatVars == <<floatOffsetFresh>>

geomVars == <<geoCount, texCoords, origTexels>>

vars == <<physVars, storeVars, effectVars, gpuVars, uniformVars, frameVars,
          sceneVars, audioVars, normVars, visualVars, rotVars, gestureVars,
          rateVars, pathVars, clockVars, trackerVars, targetVars, floatVars, geomVars>>

NULL == "null"
\* A dataset state that holds null
NoData == [none |-> TRUE]
\* A hand position that is null
NoHand == <<>>

----------------------------------------------------------------------------
(* Fixed point helpers *)

PosScale == 16
VelScale == 64

Abs(a) == IF a >= 0 THEN a ELSE -a

\* a / b truncated toward zero (b > 0)
Div(a, b) == IF a >= 0 THEN a \div b ELSE -((-a) \div b)

Min(a, b) == IF a <= b THEN a ELSE b
Max(a, b) == IF a >= b THEN a ELSE b

RECURSIVE SqrtSearch(_, _, _)
SqrtSearch(n, lo, hi) ==
  IF lo >= hi THEN lo
  ELSE LET mid == (lo + hi + 1) \div 2
       IN IF mid * mid <= n THEN SqrtSearch(n, mid, hi)
                            ELSE SqrtSearch(n, lo, mid - 1)

\* floor(sqrt(n)), n < 2^31
ISqrt(n) == SqrtSearch(n, 0, 46340)

Zero3 == <<0, 0, 0>>
VAdd(a, b) == <<a[1] + b[1], a[2] + b[2], a[3] + b[3]>>
VSub(a, b) == <<a[1] - b[1], a[2] - b[2], a[3] - b[3]>>
VNeg(a) == <<-a[1], -a[2], -a[3]>>
VMulDiv(a, m, d) == <<Div(a[1] * m, d), Div(a[2] * m, d), Div(a[3] * m, d)>>
Dot(a, b) == a[1] * b[1] + a[2] * b[2] + a[3] * b[3]
Cross(a, b) == <<a[2] * b[3] - a[3] * b[2],
                 a[3] * b[1] - a[1] * b[3],
                 a[1] * b[2] - a[2] * b[1]>>

\* GLSL length(): floor of the Euclidean length on the integer grid
Length(a) == ISqrt(Dot(a, a))

\* GLSL normalize() in thousandths.  The result for a zero-length vector is
\* undefined in GLSL (0/0); callers record that case in a "zeroNorm" flag.
Normalize(a) ==
  LET len == Length(a)
  IN IF len = 0 THEN Zero3 ELSE VMulDiv(a, 1000, len)

IsZeroLength(a) == Dot(a, a) = 0

----------------------------------------------------------------------------
(* computeShaders.ts, first definition *)

\* One hand of the first velocity shader (lines 83-99 / 102-117).
\* worldPos, hand in position ticks; radius in world units; noise in
\* thousandths; repulsion in tenths.  Result in velocity ticks.
HandRepulsion1(worldPos, hand, radius, repulsion, noise) ==
  IF ~(Length(hand) * 1000 > PosScale) THEN Zero3
  ELSE
    LET toParticle == VSub(worldPos, hand)
        dist == Length(toParticle)
    IN IF ~(dist < radius * PosScale /\ dist * 100 > PosScale) THEN Zero3
       ELSE
         LET q == Div((radius * PosScale - dist) * 1000, radius * PosScale)
             force == Div(Div(q * q, 1000) * q, 1000)
             dir0 == Normalize(toParticle)
             dir1 == Normalize(VAdd(dir0, VMulDiv(noise, 3, 10)))
             pushDir == <<dir1[1], dir1[2] + Div(force, 10), dir1[3]>>
         IN VMulDiv(VMulDiv(pushDir, force, 1000),
                    repulsion * 20 * PosScale * VelScale, 1000)

\* Audio bass pulse (lines 119-124 / 306-311): radial impulse, guarded
AudioImpulse(disp, bass) ==
  IF ~(bass > 10) THEN Zero3
  ELSE
    LET dist == Length(disp)
        radialDir == IF dist * 100 > PosScale THEN Normalize(disp)
                                              ELSE <<0, 1000, 0>>
    IN VMulDiv(VMulDiv(radialDir, bass, 1000), 30 * PosScale * VelScale, 1000)

\* main() of the first velocity shader (lines 68-130)
velocityComputeShader1(u, vel, disp, orig, uDeltaTime, noiseL, noiseR) ==
  LET worldPos == VAdd(orig, disp)
      dt == Min(uDeltaTime, 30)
      springK == 20 + u.attraction * 4
      springForce == VMulDiv(VNeg(disp), springK * VelScale, 10)
      handForce ==
        VAdd(VAdd(HandRepulsion1(worldPos, u.leftHand, u.handRadius,
                                 u.repulsion, noiseL),
                  HandRepulsion1(worldPos, u.rightHand, u.handRadius,
                                 u.repulsion, noiseR)),
             AudioImpulse(disp, u.bass))
      v1 == VAdd(vel, VMulDiv(VAdd(springForce, handForce), dt, 600))
  IN VMulDiv(v1, 95, 100)

\* The clamp of the position shaders: rescale when longer than maxDist
ClampLengthUnclamped(d, maxDist) == d
ClampLength(d, maxDist) ==
  LET len == Length(d)
  IN IF len > maxDist * PosScale THEN VMulDiv(d, maxDist * PosScale, len) ELSE d

\* displacement += velocity * dt * 60.0 (line 143)
Integrate1(disp, vel, uDeltaTime) ==
  VAdd(disp, VMulDiv(vel, Min(uDeltaTime, 30), 10 * VelScale))

\* main() of the first position shader (lines 137-153)
positionComputeShader1(disp, vel, uDeltaTime) ==
  ClampLength(Integrate1(disp, vel, uDeltaTime), 500)

----------------------------------------------------------------------------
(* computeShaders.ts, second definition *)

\* computeHandForce (lines 226-286).  zeroNorm records that normalize() was
\* applied to a zero-length vector on the path taken.
computeHandForce(u, worldPos, handPos, noise) ==
  LET none == [force |-> Zero3, zeroNorm |-> FALSE]
  IN
  IF Length(handPos) * 1000 < PosScale THEN none
  ELSE
    LET toParticle == VSub(worldPos, handPos)
        dist == Length(toParticle)
        radius == u.handRadius * PosScale
        uGesture == u.gesture
    IN
    IF dist >= radius \/ dist * 100 < PosScale THEN none
    ELSE
      LET q == Div((radius - dist) * 1000, radius)
          falloff == Div(Div(q * q, 1000) * q, 1000)
          scaled(dir, gain10, k) ==
            VMulDiv(VMulDiv(dir, falloff, 1000),
                    gain10 * k * PosScale * VelScale, 10000)
      IN
      CASE uGesture = 0 \/ uGesture = 4 -> none
        [] uGesture = 1 ->
             LET p0 == VAdd(Normalize(toParticle), VMulDiv(noise, 3, 10))
                 p1 == Normalize(p0)
                 pushDir == <<p1[1], p1[2] + Div(falloff, 10), p1[3]>>
             IN [force |-> scaled(pushDir, u.repulsion, 60),
                 zeroNorm |-> IsZeroLength(toParticle) \/ IsZeroLength(p0)]
        [] uGesture = 2 ->
             LET p0 == VAdd(VNeg(Normalize(toParticle)), VMulDiv(noise, 15, 100))
                 pullDir == Normalize(p0)
             IN [force |-> scaled(pullDir, u.attraction, 50),
                 zeroNorm |-> IsZeroLength(toParticle) \/ IsZeroLength(p0)]
        [] uGesture = 3 ->
             LET c == Cross(<<0, 1, 0>>, toParticle)
                 tangent == Normalize(c)
                 inward == VMulDiv(VNeg(Normalize(toParticle)), 3, 10)
                 o0 == VAdd(VAdd(tangent, inward), VMulDiv(noise, 1, 10))
                 orbitDir == Normalize(o0)
             IN [force |-> scaled(orbitDir, u.repulsion, 45),
                 zeroNorm |-> IsZeroLength(c) \/ IsZeroLength(toParticle)
                              \/ IsZeroLength(o0)]
        [] uGesture = 5 ->
             LET p0 == VAdd(Normalize(toParticle), VMulDiv(noise, 5, 10))
                 burstDir == Normalize(p0)
             IN [force |-> scaled(burstDir, u.repulsion, 120),
                 zeroNorm |-> IsZeroLength(toParticle) \/ IsZeroLength(p0)]
        [] OTHER -> none

\* main() of the second velocity shader (lines 288-317)
velocityComputeShader2(u, vel, disp, orig, uDeltaTime, noiseL, noiseR) ==
  LET worldPos == VAdd(orig, disp)
      dt == Min(uDeltaTime, 30)
      springK == 60 + u.attraction * 8
      springForce == VMulDiv(VNeg(disp), springK * VelScale, 10)
      handForce ==
        VAdd(VAdd(computeHandForce(u, worldPos, u.leftHand, noiseL).force,
                  computeHandForce(u, worldPos, u.rightHand, noiseR).force),
             AudioImpulse(disp, u.bass))
      v1 == VAdd(vel, VMulDiv(VAdd(springForce, handForce), dt, 600))
  IN VMulDiv(v1, 85, 100)

\* displacement += velocity * dt * 20.0 (line 330)
Integrate2(disp, vel, uDeltaTime) ==
  VAdd(disp, VMulDiv(vel, Min(uDeltaTime, 30), 30 * VelScale))

\* main() of the second position shader (lines 324-340)
positionComputeShader2(disp, vel, uDeltaTime) ==
  ClampLength(Integrate2(disp, vel, uDeltaTime), 150)

\* maxDist of the position shader in use
MaxDisplacement == IF shaderVersion = 1 THEN 500 ELSE 150

velocityComputeShader(u, vel, disp, orig, dt, noiseL, noiseR) ==
  IF shaderVersion = 1
    THEN velocityComputeShader1(u, vel, disp, orig, dt, noiseL, noiseR)
    ELSE velocityComputeShader2(u, vel, disp, orig, dt, noiseL, noiseR)

positionComputeShader(disp, vel, dt) ==
  IF shaderVersion = 1 THEN positionComputeShader1(disp, vel, dt)
                       ELSE positionComputeShader2(disp, vel, dt)

----------------------------------------------------------------------------
(* GPUComputationRenderer.compute(): every variable is rendered from the   *)
(* current (previous frame's) textures of its dependencies, then the       *)
(* texture index flips (Scene.tsx 788-792, 743).                           *)

MaxPhysFrames == 3
MaxRestFrames == 700

NoiseVectors == {<<0, 0, 0>>, <<1000, -1000, 1000>>, <<-1000, 1000, 0>>}

\* The velocity uniforms as they stand
VelocityUniforms ==
  [leftHand |-> physLeftHand, rightHand |-> physRightHand,
   handRadius |-> physHandRadius, repulsion |-> physRepulsion,
   attraction |-> physAttraction, bass |-> physBass, gesture |-> physGesture]

\* compute() under the velocity uniforms u; dt in 1/600 s
Compute(u, dt, noiseL, noiseR) ==
  \E newPos \in {positionComputeShader(displacement, velocity, dt)},
     newVel \in {velocityComputeShader(u, velocity, displacement, originalPos,
                                       dt, noiseL, noiseR)},
     moved \in {IF shaderVersion = 1 THEN Integrate1(displacement, velocity, dt)
                                     ELSE Integrate2(displacement, velocity, dt)} :
     /\ displacement' = newPos
     /\ velocity' = newVel
     /\ lastClamped' = (Length(moved) > MaxDisplacement * PosScale)
     /\ physLeftHand' = u.leftHand
     /\ physRightHand' = u.rightHand
     /\ physBass' = u.bass
     /\ UNCHANGED <<shaderVersion, originalPos, physHandRadius, physRepulsion,
                    physAttraction, physGesture, initialDisplacement>>

physTextureVars == <<velocity, displacement, lastClamped, physLeftHand,
                     physRightHand, physBass, shaderVersion, originalPos,
                     physHandRadius, physRepulsion, physAttraction, physGesture,
                     initialDisplacement>>

----------------------------------------------------------------------------
(* ParticleSystem: per-frame update (Scene.tsx 589-759) *)

effectToIndex ==
  [none |-> 0, wave |-> 1, spiral |-> 2, explode |-> 3, implode |-> 4,
   noise |-> 5, vortex |-> 6, pulse |-> 7, flow |-> 8, rotate |-> 9,
   float |-> 10]

\* Frame deltas in ms; speeds in tenths
Deltas == {100, 400}

\* smooth.lerp(target, f), f in thousandths
Lerp(a, b, f) == VAdd(a, VMulDiv(VSub(b, a), f, 1000))

\* Hand smoothing (lines 594-613): the absent hand is lerped toward zero
SmoothedHand(smooth, hand, delta) ==
  LET lerpFactor == Min(Div(delta * gestureTransitionSpeed * 5, 10), 1000)
  IN IF hand # NoHand /\ handEnabled
       THEN Lerp(smooth, hand, lerpFactor)
       ELSE Lerp(smooth, Zero3, lerpFactor)

\* updateUniforms (lines 563-574), called at the end of every frame
MaterialHand(hand) == IF hand # NoHand /\ handEnabled THEN hand ELSE Zero3

FrameHands(sl, sr) ==
  /\ smoothLeftHand' = sl
  /\ smoothRightHand' = sr
  /\ uLeftHand' = MaterialHand(leftHand)
  /\ uRightHand' = MaterialHand(rightHand)

\* The stage reached at the end of a frame that started in stage st with
\* the progress advanced to prog (lines 622-657)
StageAfterNoDwell(st, prog) ==
  CASE st = "fadeOut" /\ prog >= 1000 -> "fadeIn"
    [] st = "showNone" /\ prog >= 300 -> "fadeIn"
    [] st = "fadeIn" /\ prog >= 1000 -> "idle"
    [] OTHER -> st
StageAfter(st, prog) ==
  CASE st = "fadeOut" /\ prog >= 1000 -> "showNone"
    [] st = "showNone" /\ prog >= 300 -> "fadeIn"
    [] st = "fadeIn" /\ prog >= 1000 -> "idle"
    [] OTHER -> st

\* The effect shown while no transition runs (line 660)
IdleEffectPrevious == previousEffect
IdleEffect == currentEffect

\* Effect transition (lines 615-662)
FrameEffect(delta) ==
  IF effectTransitionStage # "idle" THEN
    LET prog == Min(effectTransition + Div(delta * transitionSpeed * 2, 10), 1000)
        st == effectTransitionStage
        next == StageAfter(st, prog)
    IN /\ effectTransitionStage' = next
       /\ effectTransition' = IF st \in {"fadeOut", "showNone"} /\ next # st
                                THEN 0 ELSE prog
       /\ previousEffect' =
            CASE st = "fadeOut" /\ next # st -> "none"
              [] st = "fadeIn" /\ next # st -> targetEffect
              [] OTHER -> previousEffect
       /\ uEffect' =
            CASE st = "fadeOut" /\ next = st -> effectToIndex[previousEffect]
              [] st = "fadeOut" /\ next # st -> effectToIndex["none"]
              [] st = "showNone" -> effectToIndex["none"]
              [] OTHER -> effectToIndex[targetEffect]
       /\ uEffectIntensity' =
            CASE st = "fadeOut" /\ next = st ->
                   Div(effectIntensity * (1000 - prog), 1000)
              [] st = "fadeOut" /\ next # st -> 0
              [] st = "showNone" -> 0
              [] OTHER -> Div(effectIntensity * prog, 1000)
       /\ UNCHANGED <<targetEffect, previousEffectIntensity>>
  ELSE
    /\ uEffect' = effectToIndex[IdleEffect]
    /\ uEffectIntensity' = effectIntensity
    /\ UNCHANGED effectVars

\* Shape / colour progress (lines 713-720); the promotion timer of Scene
\* (lines 200-209) runs down with the time the frame took
FrameShape(delta) ==
  /\ IF targetData # NoData
       THEN \E prog \in {Min(transitionProgress + Div(delta * transitionSpeed, 10),
                               1000)} :
              /\ transitionProgress' = prog
              /\ uTransitionProgress' = prog
       ELSE UNCHANGED <<transitionProgress, uTransitionProgress>>
  /\ timerRemaining' = Max(timerRemaining - delta, 0)

\* visualSettings.colorTransitionSpeed, tenths (computeShaders.ts 572)
colorTransitionSpeed == 5

FrameColourUncapped(delta) ==
  colorBlend' =
    IF colorBlend < 1000
      THEN colorBlend + Div(delta * colorTransitionSpeed * 15, 100)
      ELSE colorBlend

\* Colour-mode blend (lines 664-673); the speed falls back to 0.5 when 0
FrameColour(delta) ==
  colorBlend' =
    IF colorBlend < 1000
      THEN Min(colorBlend
                 + Div(delta * (IF colorTransitionSpeed = 0 THEN 5
                                ELSE colorTransitionSpeed) * 15, 100), 1000)
      ELSE colorBlend

\* Lighting transition (lines 683-689)
FrameLighting(delta) ==
  lightingTransition' =
    IF lightingTransition < 1000
      THEN Min(lightingTransition + Div(delta * transitionSpeed * 2, 10), 1000)
      ELSE lightingTransition

\* Float offset (lines 722-726): uFloatOffset is written from the frame's
\* time while the selected effect is float, and left as it is otherwise
FrameFloat ==
  floatOffsetFresh' = (currentEffect = "float")

Band(name) == IF audioData = NoData THEN 0 ELSE audioData[name]

\* GPGPU compute pass (lines 728-750)
GpuReady == gpuComputeRef # NULL /\ gpuVarsRef # NULL /\ gpuEnabled

FrameGpgpu(delta, noise, sl, sr) ==
  IF GpuReady THEN
    /\ Compute([leftHand |-> sl, rightHand |-> sr,
                handRadius |-> physHandRadius, repulsion |-> physRepulsion,
                attraction |-> physAttraction, bass |-> Band("bass"),
                gesture |-> physGesture],
               Min(Div(Min(delta, 50) * 600, 1000), 30), noise, VNeg(noise))
    /\ texturePhysics' = gpuComputeRef
    /\ uUseGPGPU' = TRUE
    /\ gpuStepped' = gpuComputeRef
  ELSE
    /\ uUseGPGPU' = FALSE
    /\ gpuStepped' = NULL
    /\ UNCHANGED <<texturePhysics, physTextureVars>>

\* Audio reactive uniforms (lines 752-756)
FrameAudio ==
  uAudio' = [bass |-> Band("bass"), mid |-> Band("mid"),
             treble |-> Band("treble"), energy |-> Band("energy")]

\* The useFrame callback, for frames that took one of deltas ms
FrameOf(deltas) ==
  \E delta \in deltas, noise \in NoiseVectors :
  \E sl \in {SmoothedHand(smoothLeftHand, leftHand, delta)},
     sr \in {SmoothedHand(smoothRightHand, rightHand, delta)} :
    /\ FrameHands(sl, sr)
    /\ FrameEffect(delta)
    /\ FrameColour(delta)
    /\ FrameLighting(delta)
    /\ FrameShape(delta)
    /\ FrameFloat
    /\ FrameGpgpu(delta, noise, sl, sr)
    /\ FrameAudio
    /\ frameTick' = 1 - frameTick
    /\ UNCHANGED <<storeVars, gpuVars, physFrames, sourceType, sourceData,
                   countSetting, currentData, targetData, previousSource,
                   pendingGen, isLoading, errorMsg, audioVars, normVars,
                   colorMode, prevColorMode, currentColorMode, lightingMode,
                   previousLightingMode,
                   rotVars, gestureVars, rateVars, pathVars, trackerVars,
                   geomVars>>

\* A frame that comes on time; the render targets are followed by
\* FrameWithTargets only
Frame ==
  /\ frameGap = 0
  /\ FrameOf(Deltas)
  /\ UNCHANGED <<clockVars, targetVars>>

\* Effect change detection (lines 403-413), run when currentEffect or
\* effectIntensity changed
EffectChangeDetection(effect, intensity) ==
  /\ IF effect # previousEffect /\ effectTransitionStage = "idle"
       THEN /\ targetEffect' = effect
            /\ effectTransitionStage' = "fadeOut"
            /\ effectTransition' = 0
       ELSE UNCHANGED <<targetEffect, effectTransitionStage, effectTransition>>
  /\ previousEffectIntensity' = intensity
  /\ UNCHANGED previousEffect

EffectChoices == {"none", "wave", "float"}
IntensityChoices == {500, 1000}
SpeedChoices == {5, 20}

notEffectVars == <<physVars, gpuVars, uniformVars, frameVars, sceneVars,
                   audioVars, normVars,
                 visualVars, rotVars, gestureVars, rateVars, pathVars, clockVars, trackerVars, targetVars, floatVars, geomVars>>

\* setCurrentEffect (computeShaders.ts 642) and the effect it triggers
SetCurrentEffect ==
  \E e \in EffectChoices :
    /\ e # currentEffect
    /\ currentEffect' = e
    /\ EffectChangeDetection(e, effectIntensity)
    /\ UNCHANGED <<effectIntensity, transitionSpeed, leftHand, rightHand,
                   handEnabled, gestureTransitionSpeed, audioData, audioEnabled>>
    /\ UNCHANGED notEffectVars

\* setEffectIntensity (computeShaders.ts 643) and the effect it triggers
SetEffectIntensity ==
  \E i \in IntensityChoices :
    /\ i # effectIntensity
    /\ effectIntensity' = i
    /\ EffectChangeDetection(currentEffect, i)
    /\ UNCHANGED <<currentEffect, transitionSpeed, leftHand, rightHand,
                   handEnabled, gestureTransitionSpeed, audioData, audioEnabled>>
    /\ UNCHANGED notEffectVars

\* Promotion timer (Scene.tsx 200-209): restarted when targetData or
\* transitionSpeed changes; 2000 / speed ms
TimerDuration(speed) == IF speed = 0 THEN 0 ELSE Div(20000, speed)

\* updateParticleSettings({transitionSpeed})
SetTransitionSpeed ==
  \E sp \in SpeedChoices :
    /\ sp # transitionSpeed
    /\ transitionSpeed' = sp
    /\ timerRemaining' = IF targetData # NoData THEN TimerDuration(sp)
                                               ELSE timerRemaining
    /\ UNCHANGED <<currentEffect, effectIntensity, leftHand, rightHand,
                   handEnabled, gestureTransitionSpeed, audioData, audioEnabled>>
    /\ UNCHANGED <<physVars, effectVars, gpuVars, uniformVars, frameVars,
                   sourceType, sourceData, countSetting, currentData,
                   targetData, previousSource, pendingGen, isLoading, errorMsg,
                   audioVars, normVars,
                 visualVars, rotVars, gestureVars, rateVars, pathVars, clockVars, trackerVars, targetVars, floatVars, geomVars>>

ColorModes == {"original", "rainbow"}

notVisualVars == <<physVars, storeVars, effectVars, gpuVars, uniformVars,
                   frameVars, sceneVars, audioVars, normVars, rotVars, gestureVars, rateVars, pathVars, clockVars, trackerVars, targetVars, floatVars, geomVars>>

\* updateVisualSettings({colorMode}) (computeShaders.ts 650-653) and the
\* colour mode change detection it triggers (Scene.tsx 416-422)
SetColorMode ==
  \E m \in ColorModes :
    /\ m # colorMode
    /\ colorMode' = m
    /\ IF m # currentColorMode
         THEN /\ prevColorMode' = currentColorMode
              /\ currentColorMode' = m
              /\ colorBlend' = 0
         ELSE UNCHANGED <<prevColorMode, currentColorMode, colorBlend>>
    /\ UNCHANGED <<lightingMode, previousLightingMode, lightingTransition>>
    /\ UNCHANGED notVisualVars

----------------------------------------------------------------------------
(* Scene: particle data generation, shape transition, promotion *)

\* generateDefaultParticles(count) (security.ts 294-322): exactly count
\* particles; a particle is carried as a tag <<formation, index>>
DefaultParticles(n) ==
  [pos |-> [i \in 1..n |-> <<"default", i>>],
   col |-> [i \in 1..n |-> <<"default", i>>]]

\* Number of pixels of a source that pass the alpha / brightness filter
ValidPixels(data) == IF data = "a" THEN 2 ELSE 5

\* generateParticlesFromImage / generateTextParticles (security.ts 324-418,
\* 421-499): Math.min(maxParticles, validPixels.length) particles
SampledParticles(type, data, maxParticles) ==
  LET n == Min(maxParticles, ValidPixels(data))
  IN [pos |-> [i \in 1..n |-> <<type, data, i>>],
      col |-> [i \in 1..n |-> <<type, data, i>>]]

Count(d) == Len(d.pos)

\* Count adjustment (Scene.tsx 149-174): existing particles keep their
\* position and colour, new ones start near the centre in the new colour
Adjusted(cur, result) ==
  [pos |-> [i \in 1..Count(result) |->
              IF i <= Count(cur) THEN cur.pos[i] ELSE <<"center", i>>],
   col |-> [i \in 1..Count(result) |->
              IF i <= Count(cur) THEN cur.col[i] ELSE result.col[i]]]

CountChoices == {3, 4}
SourceTypes == {"default", "image", "text"}
SourceDatas == {NULL, "a"}
InitOutcomes == {"ok", "threw", "initError"}
MaxPending == 1
MaxLeaked == 1

\* GPGPU initialisation outcome (Scene.tsx 815-829): what the refs hold
\* after the effect body, from the refs the cleanup left
GpgpuInitResultUnchecked(outcome, ref, varsRef) ==
  IF outcome = "ok"
    THEN [ref |-> "ready", varsRef |-> "current", enabled |-> TRUE]
    ELSE [ref |-> "failed", varsRef |-> "current", enabled |-> TRUE]
GpgpuInitResult(outcome, ref, varsRef) ==
  IF outcome = "ok"
    THEN [ref |-> "ready", varsRef |-> "current", enabled |-> TRUE]
    ELSE [ref |-> ref, varsRef |-> varsRef, enabled |-> FALSE]

\* GPGPU effect on a change of positions (Scene.tsx 767-839): the cleanup
\* of the previous run, then the initialisation with fresh textures
GpgpuReinit(outcome) ==
  LET cleanedRef == NULL
      cleanedVars == IF gpuVarsRef = NULL THEN NULL ELSE "stale"
      r == GpgpuInitResult(outcome, cleanedRef, cleanedVars)
  IN /\ gpuComputeRef' = r.ref
     /\ gpuVarsRef' = r.varsRef
     /\ gpuEnabled' = r.enabled
     /\ gpuLeaked' = IF outcome = "initError" THEN Min(gpuLeaked + 1, MaxLeaked)
                                             ELSE gpuLeaked
     /\ IF outcome = "ok"
          THEN /\ displacement' = Zero3
               /\ velocity' = Zero3
               /\ physLeftHand' = Zero3
               /\ physRightHand' = Zero3
               /\ physBass' = 0
               /\ lastClamped' = FALSE
          ELSE UNCHANGED <<displacement, velocity, physLeftHand, physRightHand,
                           physBass, lastClamped>>
     /\ UNCHANGED <<shaderVersion, originalPos, physHandRadius, physRepulsion,
                    physAttraction, physGesture, physFrames, initialDisplacement>>

\* The render that follows setCurrentData / setTargetData and the effects
\* of Scene and ParticleSystem it fires: GPGPU re-initialisation when
\* positions changed (767-839), progress reset when the targets changed
\* (761-764), promotion timer restart when targetData changed (200-209)
Commit(curSet, newCur, tgtSet, newTgt, outcome) ==
  LET tgtChanged == tgtSet /\ ~(newTgt = NoData /\ targetData = NoData)
  IN /\ currentData' = IF curSet THEN newCur ELSE currentData
     /\ targetData' = IF tgtSet THEN newTgt ELSE targetData
     /\ IF curSet THEN GpgpuReinit(outcome)
                  ELSE UNCHANGED <<gpuVars, physVars>>
     /\ transitionProgress' = IF tgtChanged THEN 0 ELSE transitionProgress
     /\ timerRemaining' =
          IF tgtChanged
            THEN IF newTgt = NoData THEN 0 ELSE TimerDuration(transitionSpeed)
            ELSE timerRemaining
     /\ UNCHANGED <<effectVars, uniformVars, smoothLeftHand, smoothRightHand,
                    frameTick, gpuStepped>>

\* "Set up transition" (Scene.tsx 142-182) with the currentData the
\* generateParticles closure captured
Install(result, cur, outcome) ==
  IF cur # NoData
    THEN IF Count(cur) # Count(result)
           THEN Commit(TRUE, Adjusted(cur, result), TRUE, result, outcome)
           ELSE Commit(FALSE, NoData, TRUE, result, outcome)
    ELSE Commit(TRUE, result, TRUE, NoData, outcome)

\* Default branch (Scene.tsx 66-92): no count adjustment
InstallDefault(result, cur, outcome) ==
  IF cur # NoData
    THEN Commit(FALSE, NoData, TRUE, result, outcome)
    ELSE Commit(TRUE, result, TRUE, NoData, outcome)

NoCommit ==
  UNCHANGED <<currentData, targetData, gpuVars, physVars, transitionProgress,
              timerRemaining, effectVars, uniformVars, smoothLeftHand,
              smoothRightHand, frameTick, gpuStepped>>

\* The generateParticles effect (Scene.tsx 64-197) up to its first await,
\* run with the source and count of the render that fired it
GenerateParticles(type, data, count, outcome) ==
  IF data = NULL \/ type = "default" THEN
    IF previousSource = <<"default", NULL>>
      THEN NoCommit /\ UNCHANGED <<previousSource, pendingGen, isLoading, errorMsg>>
      ELSE /\ InstallDefault(DefaultParticles(count), currentData, outcome)
           /\ previousSource' = <<"default", NULL>>
           /\ isLoading' = FALSE
           /\ UNCHANGED <<pendingGen, errorMsg>>
  ELSE IF previousSource = <<type, data>>
    THEN NoCommit /\ UNCHANGED <<previousSource, pendingGen, isLoading, errorMsg>>
  ELSE IF type = "image" THEN
    /\ pendingGen' = pendingGen \cup
         {[type |-> type, data |-> data, count |-> count, cur |-> currentData]}
    /\ isLoading' = TRUE
    /\ errorMsg' = NULL
    /\ NoCommit
    /\ UNCHANGED previousSource
  ELSE
    /\ Install(SampledParticles(type, data, count), currentData, outcome)
    /\ previousSource' = <<type, data>>
    /\ isLoading' = FALSE
    /\ errorMsg' = NULL
    /\ UNCHANGED pendingGen

\* setSourceType / setSourceData (computeShaders.ts 638-639), one or both
\* in one batch, and the effect the new render fires
SetSourceOf(types, datas) ==
  \E type \in types, data \in datas, outcome \in InitOutcomes :
    /\ <<type, data>> # <<sourceType, sourceData>>
    /\ (type = "image" /\ data # NULL) => Cardinality(pendingGen) < MaxPending
    /\ sourceType' = type
    /\ sourceData' = data
    /\ GenerateParticles(type, data, countSetting, outcome)
    /\ UNCHANGED <<storeVars, countSetting, audioVars, normVars,
                 visualVars, rotVars, gestureVars, rateVars, pathVars, clockVars, trackerVars, targetVars, floatVars, geomVars>>

SetSource == SetSourceOf(SourceTypes, SourceDatas)

\* updateParticleSettings({count}) (computeShaders.ts 645-648)
UpdateParticleCount ==
  \E count \in CountChoices, outcome \in InitOutcomes :
    /\ count # countSetting
    /\ Cardinality(pendingGen) < MaxPending
    /\ countSetting' = count
    /\ GenerateParticles(sourceType, sourceData, count, outcome)
    /\ UNCHANGED <<storeVars, sourceType, sourceData, audioVars, normVars,
                 visualVars, rotVars, gestureVars, rateVars, pathVars, clockVars, trackerVars, targetVars, floatVars, geomVars>>

FallbackCommitKeepsTarget(count, outcome) ==
  Commit(TRUE, DefaultParticles(count), FALSE, NoData, outcome)

\* catch block of generateParticles (Scene.tsx 183-190), without setError
FallbackCommit(count, outcome) ==
  Commit(TRUE, DefaultParticles(count), TRUE, NoData, outcome)

\* generateParticlesFromImage settles (Scene.tsx 106-195): the image
\* loaded, or onerror rejected (security.ts 412-414)
GenerationSettles ==
  \E g \in pendingGen, loaded \in BOOLEAN, outcome \in InitOutcomes :
    /\ pendingGen' = pendingGen \ {g}
    /\ isLoading' = FALSE
    /\ IF loaded
         THEN /\ Install(SampledParticles(g.type, g.data, g.count), g.cur, outcome)
              /\ previousSource' = <<g.type, g.data>>
              /\ UNCHANGED errorMsg
         ELSE /\ FallbackCommit(g.count, outcome)
              /\ errorMsg' = "Failed to generate particles."
              /\ UNCHANGED previousSource
    /\ UNCHANGED <<storeVars, sourceType, sourceData, countSetting, audioVars,
                   normVars,
                 visualVars, rotVars, gestureVars, rateVars, pathVars, clockVars, trackerVars, targetVars, floatVars, geomVars>>

\* The promotion timer fires (Scene.tsx 202-205)
TimerFires ==
  /\ targetData # NoData
  /\ timerRemaining = 0
  /\ \E outcome \in InitOutcomes :
       Commit(TRUE, targetData, TRUE, NoData, outcome)
  /\ UNCHANGED <<storeVars, sourceType, sourceData, countSetting,
                 previousSource, pendingGen, isLoading, errorMsg, audioVars,
                 normVars,
                 visualVars, rotVars, gestureVars, rateVars, pathVars, clockVars, trackerVars, targetVars, floatVars, geomVars>>

\* Attribute arrays of the geometry (Scene.tsx 446-482)
Geometry ==
  [position |-> currentData.pos,
   color |-> currentData.col,
   targetPosition |-> IF targetData # NoData THEN targetData.pos ELSE currentData.pos,
   targetColor |-> IF targetData # NoData THEN targetData.col ELSE currentData.col]

----------------------------------------------------------------------------
(* Hand tracking input *)

HandInputs == {<<PosScale, 0, 0>>}

\* setHandPosition (computeShaders.ts 688-689)
SetHandPosition ==
  \E hand \in {"left", "right"}, position \in HandInputs \cup {NoHand} :
    /\ position # (IF hand = "left" THEN leftHand ELSE rightHand)
    /\ leftHand' = IF hand = "left" THEN position ELSE leftHand
    /\ rightHand' = IF hand = "right" THEN position ELSE rightHand
    /\ UNCHANGED <<currentEffect, effectIntensity, transitionSpeed, handEnabled,
                   gestureTransitionSpeed, audioData, audioEnabled>>
    /\ UNCHANGED <<physVars, effectVars, gpuVars, uniformVars, frameVars,
                   sceneVars, audioVars, normVars,
                 visualVars, rotVars, gestureVars, rateVars, pathVars, clockVars, trackerVars, targetVars, floatVars, geomVars>>

\* updateHandSettings({enabled}) (computeShaders.ts 655-658)
UpdateHandSettings ==
  /\ handEnabled' = ~handEnabled
  /\ UNCHANGED <<currentEffect, effectIntensity, transitionSpeed, leftHand,
                 rightHand, gestureTransitionSpeed, audioData, audioEnabled>>
  /\ UNCHANGED <<physVars, effectVars, gpuVars, uniformVars, frameVars,
                 sceneVars, audioVars, normVars,
                 visualVars, rotVars, gestureVars, rateVars, pathVars, clockVars, trackerVars, targetVars, floatVars, geomVars>>

----------------------------------------------------------------------------
(* AudioAnalyzer (part_003) *)

MaxPendingInits == 2
MaxLoops == 2
Levels == {0, 400, 800}

ZeroBands == [bass |-> 0, mid |-> 0, treble |-> 0, energy |-> 0]

\* Band values analyze publishes for a spectrum of uniform level (58-69),
\* bassMultiplier 1.5, trebleMultiplier 1, reactivity 1
Bands(level) ==
  [bass |-> Min(Div(level * 15, 10), 1000), mid |-> Min(level, 1000),
   treble |-> Min(level, 1000), energy |-> Min(level, 1000)]

\* The guard of analyze (line 27)
AnalyzeGuardUnmounted == analyserRef
AnalyzeGuard == analyserRef /\ mountedRef

notAudioVars == <<physVars, effectVars, gpuVars, uniformVars, frameVars,
                  sceneVars, normVars,
                 visualVars, rotVars, gestureVars, rateVars, pathVars, clockVars, trackerVars, targetVars, floatVars, geomVars>>

\* updateAudioSettings (computeShaders.ts 699-702): enabled, or another
\* audio setting, is changed; the render is scheduled
UpdateAudioSettings ==
  \E enabled \in BOOLEAN :
    /\ pendingOpen + pendingClosed < MaxPendingInits
    /\ audioEnabled' = enabled
    /\ audioRenderDue' = TRUE
    /\ UNCHANGED <<currentEffect, effectIntensity, transitionSpeed, leftHand,
                   rightHand, handEnabled, gestureTransitionSpeed, audioData>>
    /\ UNCHANGED <<mountedRef, analyserRef, audioCleanupDue, pendingOpen,
                   pendingClosed, rafScheduled, animationRefLive>>
    /\ UNCHANGED notAudioVars

\* The initialisation effect (75-155) after a render with changed audio
\* settings: the cleanup of the previous run (130-154), then the body
AudioEffect ==
  /\ audioRenderDue
  /\ audioRenderDue' = FALSE
  /\ LET cancelled == audioCleanupDue /\ animationRefLive
         scheduled == IF cancelled THEN rafScheduled - 1 ELSE rafScheduled
         closed == IF audioCleanupDue THEN pendingClosed + pendingOpen
                                      ELSE pendingClosed
         open == IF audioCleanupDue THEN 0 ELSE pendingOpen
     IN /\ rafScheduled' = scheduled
        /\ animationRefLive' = (animationRefLive /\ ~cancelled)
        /\ pendingClosed' = closed
        /\ IF audioEnabled
             THEN /\ mountedRef' = TRUE
                  /\ analyserRef' = TRUE
                  /\ pendingOpen' = open + 1
                  /\ audioCleanupDue' = TRUE
                  /\ audioData' = IF audioCleanupDue THEN ZeroBands ELSE audioData
             ELSE /\ mountedRef' = (mountedRef /\ ~audioCleanupDue)
                  /\ pendingOpen' = open
                  /\ audioCleanupDue' = FALSE
                  /\ audioData' = ZeroBands
                  /\ UNCHANGED analyserRef
  /\ UNCHANGED <<currentEffect, effectIntensity, transitionSpeed, leftHand,
                 rightHand, handEnabled, gestureTransitionSpeed, audioEnabled>>
  /\ UNCHANGED notAudioVars

\* getUserMedia settles in a pending initAudio (100-125): rejected, or the
\* source is created and the analysis loop started; on a context that was
\* closed meanwhile createMediaStreamSource may throw
InitAudioSettles ==
  \E closedCtx \in BOOLEAN, granted \in BOOLEAN, throws \in BOOLEAN :
    /\ IF closedCtx THEN pendingClosed > 0 ELSE pendingOpen > 0
    /\ throws => closedCtx
    /\ rafScheduled < MaxLoops
    /\ pendingClosed' = IF closedCtx THEN pendingClosed - 1 ELSE pendingClosed
    /\ pendingOpen' = IF closedCtx THEN pendingOpen ELSE pendingOpen - 1
    /\ IF granted /\ ~throws
         THEN /\ rafScheduled' = rafScheduled + 1
              /\ animationRefLive' = TRUE
         ELSE UNCHANGED <<rafScheduled, animationRefLive>>
    /\ UNCHANGED <<audioRenderDue, mountedRef, analyserRef, audioCleanupDue>>
    /\ UNCHANGED <<storeVars, notAudioVars>>

\* A scheduled analyze callback runs (26-72); tracked tells whether it is
\* the one animationRef names
Analyze ==
  \E tracked \in BOOLEAN, level \in Levels :
    /\ rafScheduled > 0
    /\ tracked => animationRefLive
    /\ ~tracked => rafScheduled > (IF animationRefLive THEN 1 ELSE 0)
    /\ IF AnalyzeGuard
         THEN /\ audioData' = Bands(level)
              /\ animationRefLive' = TRUE
              /\ UNCHANGED rafScheduled
         ELSE /\ rafScheduled' = rafScheduled - 1
              /\ animationRefLive' = (animationRefLive /\ ~tracked)
              /\ UNCHANGED audioData
    /\ UNCHANGED <<currentEffect, effectIntensity, transitionSpeed, leftHand,
                   rightHand, handEnabled, gestureTransitionSpeed, audioEnabled>>
    /\ UNCHANGED <<audioRenderDue, mountedRef, analyserRef, audioCleanupDue,
                   pendingOpen, pendingClosed>>
    /\ UNCHANGED notAudioVars

----------------------------------------------------------------------------
(* Direction normalisations of one shader invocation *)

\* applyEffect (part_001 114-173) for the effects that normalise: none (0),
\* explode (3), implode (4), pulse (7).  pos in ticks, intensity and wave
\* (the value of the sine) in thousandths.
applyEffect(pos, effect, intensity, wave) ==
  LET dir == Normalize(pos)
      dist == Length(pos)
      along(amount) == VMulDiv(dir, amount, 1000)
      amp(k) == Div(Div(wave * intensity, 1000) * k * PosScale, 1000)
  IN CASE effect = 3 ->
            [result |-> VAdd(pos, along(amp(30))),
             zeroNorm |-> IsZeroLength(pos)]
       [] effect = 4 ->
            [result |-> VSub(pos, along(Div(amp(20) * (100 * PosScale - dist),
                                            100 * PosScale))),
             zeroNorm |-> IsZeroLength(pos)]
       [] effect = 7 ->
            [result |-> VAdd(pos, along(Div(Div((Div(wave, 2) + 500) * intensity,
                                                1000) * 20 * PosScale, 1000))),
             zeroNorm |-> IsZeroLength(pos)]
       [] OTHER -> [result |-> pos, zeroNorm |-> FALSE]

NormPositions ==
  {<<0, 0, 0>>, <<0, 30, 0>>, <<0, -20, 0>>, <<20, 10, 0>>, <<45, 0, 5>>}
NormHands == {<<0, 10, 0>>, <<40, 0, 0>>, <<0, 0, 0>>}
NormEffects == {0, 3, 4, 7}
NormGestures == 0 .. 5
Waves == {-1000, 0, 1000}

\* The vertex stage applies the effect to a particle position
VertexInvocation ==
  /\ normStage = "input"
  /\ \E wave \in Waves :
       LET r == applyEffect(normPos, normEffect, effectIntensity, wave)
       IN /\ normResult' = r.result
          /\ normZero' = r.zeroNorm
  /\ normStage' = "vertex"
  /\ UNCHANGED <<normPos, normHand, normEffect, normGesture>>
  /\ UNCHANGED <<physVars, storeVars, effectVars, gpuVars, uniformVars,
                 frameVars, sceneVars, audioVars, visualVars, rotVars, gestureVars, rateVars, pathVars, clockVars, trackerVars, targetVars, floatVars, geomVars>>

\* The velocity pass computes the hand force on a particle
VelocityInvocation ==
  /\ normStage = "input"
  /\ \E noise \in NoiseVectors :
       LET r == computeHandForce([VelocityUniforms EXCEPT !.gesture = normGesture],
                                 normPos, normHand, noise)
       IN /\ normResult' = r.force
          /\ normZero' = r.zeroNorm
  /\ normStage' = "velocity"
  /\ UNCHANGED <<normPos, normHand, normEffect, normGesture>>
  /\ UNCHANGED <<physVars, storeVars, effectVars, gpuVars, uniformVars,
                 frameVars, sceneVars, audioVars, visualVars, rotVars, gestureVars, rateVars, pathVars, clockVars, trackerVars, targetVars, floatVars, geomVars>>

----------------------------------------------------------------------------
(* The hand force of one velocity-pass invocation *)

\* The force one hand contributes in main() of the velocity pass
\* (computeShaders.ts 81-99; 226-286 called at 299-300)
HandForce(worldPos, hand, noise) ==
  IF shaderVersion = 1
    THEN HandRepulsion1(worldPos, hand, physHandRadius, physRepulsion, noise)
    ELSE computeHandForce([VelocityUniforms EXCEPT !.gesture = normGesture],
                          worldPos, hand, noise).force

ForcePositions == {<<10, 0, 0>>, <<50, 0, 0>>, <<0, 30, 0>>, <<70, 0, 0>>,
                   <<100, 60, 0>>}
ForceHands == {<<0, 0, 0>>, <<40, 0, 0>>, <<0, 10, 0>>}
ForceRadii == {50, 100}

HandForceInvocation ==
  /\ normStage = "input"
  /\ \E noise \in NoiseVectors :
       normResult' = HandForce(normPos, normHand, noise)
  /\ normStage' = "force"
  /\ UNCHANGED <<normPos, normHand, normEffect, normGesture, normZero>>
  /\ UNCHANGED <<physVars, storeVars, effectVars, gpuVars, uniformVars,
                 frameVars, sceneVars, audioVars, visualVars, rotVars, gestureVars, rateVars, pathVars, clockVars, trackerVars, targetVars, floatVars, geomVars>>

----------------------------------------------------------------------------
(* The rotate effect on two particles *)

\* applyEffect, uEffect == 9 (part_001 179-212): rotations about the enabled
\* axes in the order X, Y, Z by one angle, then the turbulence offset
rotate(pos, basePos, axes, cosA, sinA) ==
  LET rx == IF axes[1]
              THEN <<basePos[1],
                     Div(basePos[2] * cosA - basePos[3] * sinA, 1000),
                     Div(basePos[2] * sinA + basePos[3] * cosA, 1000)>>
              ELSE basePos
      ry == IF axes[2]
              THEN <<Div(rx[1] * cosA + rx[3] * sinA, 1000),
                     rx[2],
                     Div(-rx[1] * sinA + rx[3] * cosA, 1000)>>
              ELSE rx
      rz == IF axes[3]
              THEN <<Div(ry[1] * cosA - ry[2] * sinA, 1000),
                     Div(ry[1] * sinA + ry[2] * cosA, 1000),
                     ry[3]>>
              ELSE ry
      turbulenceOffset == VSub(pos, basePos)
  IN VAdd(rz, turbulenceOffset)

\* main (part_001 337-351): the turbulence offset is noise * uTurbulence * 10
\* per axis, the effect gets basePosition + turbulence and basePosition
VertexRotate(basePosition, noise) ==
  LET turbulence == VMulDiv(noise, rotTurbulence * PosScale, 1000)
  IN rotate(VAdd(basePosition, turbulence), basePosition, rotAxes,
            rotAngle[1], rotAngle[2])

RotatePositions == {<<0, 0, 0>>, <<10, 0, 0>>, <<0, 10, 0>>, <<10, 10, 0>>,
                    <<3, -4, 5>>}
\* cos and sin of the angles 0, 90, 180 and 270 degrees
QuarterTurns == {<<1000, 0>>, <<0, 1000>>, <<-1000, 0>>, <<0, -1000>>}
TurbulenceChoices == {0, 5}

\* The vertex stage runs for both particles in one draw
RotateInvocation ==
  /\ rotOut = <<>>
  /\ \E n1 \in NoiseVectors, n2 \in NoiseVectors :
       rotOut' = <<VertexRotate(rotBase[1], n1), VertexRotate(rotBase[2], n2)>>
  /\ UNCHANGED <<rotBase, rotAxes, rotAngle, rotTurbulence>>
  /\ UNCHANGED <<physVars, storeVars, effectVars, gpuVars, uniformVars,
                 frameVars, sceneVars, audioVars, normVars, visualVars,
                 gestureVars, rateVars, pathVars, clockVars, trackerVars, targetVars, floatVars, geomVars>>

----------------------------------------------------------------------------
(* What the vertex stage draws from the geometry *)

\* mix(a, b, t) of GLSL on particle tags: a at t = 0, b at t = 1, a when both
\* are the same, a point in between otherwise
Mix(a, b, t) ==
  IF a = b \/ t = 0 THEN <<a>>
  ELSE IF t = 1000 THEN <<b>>
  ELSE <<a, b, t>>

\* basePosition and vColor of main (part_001 339, 380) for every vertex of
\* the geometry (Scene.tsx 446-482); a target attribute shorter than the
\* position attribute is read out of range
Rendered(original, target, progress) ==
  [i \in 1..Len(original) |->
     IF i > Len(target) THEN <<"out of range">>
     ELSE Mix(original[i], target[i], progress)]

RenderedPositions ==
  Rendered(Geometry.position, Geometry.targetPosition, uTransitionProgress)
RenderedColors ==
  Rendered(Geometry.color, Geometry.targetColor, uTransitionProgress)

----------------------------------------------------------------------------
(* Gestures reported by the hand tracker *)

\* HandGesture (computeShaders.ts 371) as the shader numbers it (242-278)
gestureToIndex ==
  [none |-> 0, open |-> 1, closed |-> 2, pinch |-> 3, point |-> 4, peace |-> 5]
Gestures == {"none", "open", "closed", "pinch", "point", "peace"}

notGestureVars == <<physVars, storeVars, effectVars, gpuVars, uniformVars,
                    frameVars, sceneVars, audioVars, normVars, visualVars,
                    rotVars, rateVars, pathVars, clockVars, trackerVars, targetVars, floatVars, geomVars>>

\* onResults of the tracker (HandTracker.tsx 176-179): the detected gesture
\* is stored while gesture mode is enabled
SetCurrentGesture ==
  \E gesture \in Gestures :
    /\ gestureEnabled
    /\ gesture # currentGesture
    /\ currentGesture' = gesture
    /\ UNCHANGED <<gestureEnabled, notGestureVars>>

\* updateHandSettings({gestureEnabled}) (computeShaders.ts 655-658)
SetGestureEnabled ==
  /\ gestureEnabled' = ~gestureEnabled
  /\ UNCHANGED <<currentGesture, notGestureVars>>

\* A particle inside the radius of a hand, for reading off the force the
\* velocity pass applies with the uniforms it has been given
ProbeHand == <<40 * PosScale, 0, 0>>
ProbeParticle == <<50 * PosScale, 0, 0>>
ProbeForce(gesture) ==
  computeHandForce([VelocityUniforms EXCEPT !.gesture = gesture],
                   ProbeParticle, ProbeHand, Zero3).force
AppliedProbeForce == ProbeForce(physGesture)

----------------------------------------------------------------------------
(* checkRateLimit (security.ts 119-137) *)

RateKeys == {"upload", "search"}
MaxNow == 4
MaxRequestsChoices == 0 .. 2
WindowChoices == {1, 2}

notRateVars == <<physVars, storeVars, effectVars, gpuVars, uniformVars,
                 frameVars, sceneVars, audioVars, normVars, visualVars,
                 rotVars, gestureVars, pathVars, clockVars, trackerVars, targetVars, floatVars, geomVars>>

\* The return value and the record checkRateLimit leaves for the key
checkRateLimit(key, maxRequests, windowMs) ==
  IF key \notin DOMAIN requestCounts \/ now > requestCounts[key].resetTime
    THEN [result |-> TRUE, opened |-> TRUE,
          record |-> [count |-> 1, resetTime |-> now + windowMs]]
  ELSE IF requestCounts[key].count >= maxRequests
    THEN [result |-> FALSE, opened |-> FALSE, record |-> requestCounts[key]]
  ELSE [result |-> TRUE, opened |-> FALSE,
        record |-> [requestCounts[key] EXCEPT !.count = @ + 1]]

\* One call of checkRateLimit
CheckRateLimit ==
  \E key \in RateKeys :
    LET r == checkRateLimit(key, rlMaxRequests, rlWindowMs)
    IN /\ requestCounts' = [k \in DOMAIN requestCounts \cup {key} |->
                              IF k = key THEN r.record ELSE requestCounts[k]]
       /\ rlResult' = <<key, r.result>>
       /\ rlGranted' = [rlGranted EXCEPT ![key] =
                          IF r.opened THEN 1
                          ELSE IF r.result THEN @ + 1 ELSE @]
       /\ UNCHANGED <<now, rlMaxRequests, rlWindowMs, notRateVars>>

\* Time passes between calls
ClockTick ==
  /\ now < MaxNow
  /\ now' = now + 1
  /\ UNCHANGED <<requestCounts, rlMaxRequests, rlWindowMs, rlGranted, rlResult,
                 notRateVars>>

----------------------------------------------------------------------------
(* sanitizePath (security.ts 191-200) *)

\* path.replace(/\.\./g, ''): the matches are taken left to right and do
\* not overlap
RECURSIVE RemoveDotDot(_)
RemoveDotDot(s) ==
  IF Len(s) < 2 THEN s
  ELSE IF s[1] = "." /\ s[2] = "." THEN RemoveDotDot(SubSeq(s, 3, Len(s)))
  ELSE <<s[1]>> \o RemoveDotDot(Tail(s))

\* replace(/^[/\\]+/, '')
RECURSIVE StripLeadingSlashes(_)
StripLeadingSlashes(s) ==
  IF s # <<>> /\ s[1] \in {"/", "\\"} THEN StripLeadingSlashes(Tail(s)) ELSE s

SpecialChars == {"<", ">", ":", "\"", "|", "?", "*"}

\* replace(/[<>:"|?*]/g, '')
RemoveSpecial(s) == SelectSeq(s, LAMBDA c : c \notin SpecialChars)

sanitizePath(path) == RemoveSpecial(StripLeadingSlashes(RemoveDotDot(path)))

PathChars == {".", "/", "\\", "<", "a"}
MaxPathLen == 4
Paths == UNION {[1..n -> PathChars] : n \in 0..MaxPathLen}

\* One call of sanitizePath
SanitizePath ==
  /\ pathOutput = NULL
  /\ pathOutput' = sanitizePath(pathInput)
  /\ UNCHANGED <<pathInput, physVars, storeVars, effectVars, gpuVars,
                 uniformVars, frameVars, sceneVars, audioVars, normVars,
                 visualVars, rotVars, gestureVars, rateVars, clockVars, trackerVars, targetVars, floatVars, geomVars>>

----------------------------------------------------------------------------
(* Animation frames that come late *)

\* Longest time the browser goes without an animation frame (ms)
MaxFrameGap == 600
FrameGaps == {MaxFrameGap}

\* The promotion timer (Scene.tsx 200-209) runs out while no animation
\* frame is delivered: setTimeout is not tied to the frame loop, so its
\* callback runs when its time is up and the frame that ends the gap
\* comes after it
TimerFiresInGap ==
  /\ frameGap = 0
  /\ targetData # NoData
  /\ \E gap \in FrameGaps :
       /\ 0 < timerRemaining
       /\ timerRemaining <= gap
       /\ frameGap' = gap
  /\ \E outcome \in InitOutcomes :
       Commit(TRUE, targetData, TRUE, NoData, outcome)
  /\ UNCHANGED <<storeVars, sourceType, sourceData, countSetting,
                 previousSource, pendingGen, isLoading, errorMsg, audioVars,
                 normVars, visualVars, rotVars, gestureVars, rateVars,
                 pathVars, trackerVars, targetVars, floatVars, geomVars>>

\* The frame that ends the gap: useFrame is handed the whole gap as delta
LateFrame ==
  /\ frameGap > 0
  /\ FrameOf({frameGap})
  /\ frameGap' = 0
  /\ UNCHANGED targetVars

----------------------------------------------------------------------------
(* HandTracker: the results callback *)

TrackerPositions == {<<PosScale, 0, 0>>, <<0, PosScale, 0>>}
DetectedGestures == {"open", "closed", "pinch"}

\* results.multiHandLandmarks with results.multiHandedness: up to two
\* hands, each with its label, palm position and the gesture detectGesture
\* reads from its landmarks
DetectedHands ==
  [label : {"Left", "Right"}, position : TrackerPositions,
   gesture : DetectedGestures]
Results == UNION {[1..n -> DetectedHands] : n \in 0..2}

\* The store after the loop over the hands (HandTracker.tsx 163-179): each
\* hand of the results overwrites the entry of its label
RECURSIVE StoreAfterHands(_, _)
StoreAfterHands(store, hands) ==
  IF hands = <<>> THEN store
  ELSE LET h == Head(hands)
           positioned ==
             IF h.label = "Left"
               THEN [store EXCEPT !.leftHand = h.position]
               ELSE [store EXCEPT !.rightHand = h.position]
       IN StoreAfterHands(
            IF gestureEnabled
              THEN [positioned EXCEPT !.currentGesture = h.gesture]
              ELSE positioned,
            Tail(hands))

\* onResults (HandTracker.tsx 154-231), canvas present and mounted
OnResults ==
  \E results \in Results :
    LET store == [leftHand |-> leftHand, rightHand |-> rightHand,
                  currentGesture |-> currentGesture]
        after ==
          IF Len(results) > 0
            THEN StoreAfterHands(store, results)
            ELSE [leftHand |-> NoHand, rightHand |-> NoHand,
                  currentGesture |-> "none"]
    IN /\ trackerResults' = results
       /\ leftHand' = after.leftHand
       /\ rightHand' = after.rightHand
       /\ currentGesture' = after.currentGesture
       /\ UNCHANGED <<currentEffect, effectIntensity, transitionSpeed,
                      handEnabled, gestureTransitionSpeed, audioData,
                      audioEnabled, gestureEnabled>>
       /\ UNCHANGED <<physVars, effectVars, gpuVars, uniformVars, frameVars,
                      sceneVars, audioVars, normVars, visualVars, rotVars,
                      rateVars, pathVars, clockVars, targetVars, floatVars, geomVars>>

----------------------------------------------------------------------------
(* The GPGPU block of useFrame and the render targets (Scene.tsx 728-750) *)

\* texturePhysics read from getCurrentRenderTarget before compute() ran
FrameTargetsAssignedFirst ==
  IF GpuReady THEN
    LET nextTextureIndex == 1 - currentTextureIndex
    IN /\ frameOps' = <<"texturePhysics", "texturePosition", "textureVelocity">>
       /\ texturePhysicsIndex' = currentTextureIndex
       /\ writtenIndex' = nextTextureIndex
       /\ currentTextureIndex' = nextTextureIndex
  ELSE
    /\ frameOps' = <<>>
    /\ UNCHANGED <<currentTextureIndex, writtenIndex, texturePhysicsIndex>>

\* compute() (743) renders the variables, in the order they were added
\* (788-789), into renderTargets[1 - currentTextureIndex] and then flips
\* currentTextureIndex; getCurrentRenderTarget(posVar) (745) is
\* renderTargets[currentTextureIndex] after the flip, assigned to
\* texturePhysics (746)
FrameTargets ==
  IF GpuReady THEN
    LET nextTextureIndex == 1 - currentTextureIndex
    IN /\ frameOps' = <<"texturePosition", "textureVelocity", "texturePhysics">>
       /\ writtenIndex' = nextTextureIndex
       /\ currentTextureIndex' = nextTextureIndex
       /\ texturePhysicsIndex' = nextTextureIndex
  ELSE
    /\ frameOps' = <<>>
    /\ UNCHANGED <<currentTextureIndex, writtenIndex, texturePhysicsIndex>>

\* A frame that comes on time, with its render targets
FrameWithTargets ==
  /\ frameGap = 0
  /\ FrameOf(Deltas)
  /\ FrameTargets
  /\ UNCHANGED clockVars

----------------------------------------------------------------------------
(* Texture coordinates (Scene.tsx 469-476) and the original-position      *)
(* texture (Scene.tsx 768-786)                                             *)

MaxParticles == 60

TexSizeFloor(count) == ISqrt(count)

\* Math.ceil(Math.sqrt(count))
TexSize(count) ==
  LET r == ISqrt(count) IN IF r * r = count THEN r ELSE r + 1

\* texCoords[i * 2] = (i % texSize + 0.5) / texSize and
\* texCoords[i * 2 + 1] = (Math.floor(i / texSize) + 0.5) / texSize,
\* both carried as numerators over 2 texSize
TexCoord(i, texSize) == <<2 * (i % texSize) + 1, 2 * (i \div texSize) + 1>>

\* The geometry memo: texture coordinates of particles 0 .. count - 1
BuildGeometry ==
  /\ texCoords = <<>>
  /\ texCoords' = [k \in 1..geoCount |-> TexCoord(k - 1, TexSize(geoCount))]
  /\ UNCHANGED <<geoCount, origTexels>>
  /\ UNCHANGED <<physVars, storeVars, effectVars, gpuVars, uniformVars,
                 frameVars, sceneVars, audioVars, normVars, visualVars,
                 rotVars, gestureVars, rateVars, pathVars, clockVars,
                 trackerVars, targetVars, floatVars>>

\* The GPGPU effect: createTexture() gives texSize x texSize texels, and
\* origData[i * 4 ..] receives particle i, texel i in row-major order
FillOriginalTexture ==
  /\ texCoords # <<>>
  /\ origTexels = <<>>
  /\ origTexels' =
       [t \in 1..(TexSize(geoCount) * TexSize(geoCount)) |->
          IF t - 1 < geoCount THEN t - 1 ELSE -1]
  /\ UNCHANGED <<geoCount, texCoords>>
  /\ UNCHANGED <<physVars, storeVars, effectVars, gpuVars, uniformVars,
                 frameVars, sceneVars, audioVars, normVars, visualVars,
                 rotVars, gestureVars, rateVars, pathVars, clockVars,
                 trackerVars, targetVars, floatVars>>

\* texture2D(textureOriginal, uv) with nearest filtering: the texel that
\* contains uv, as its row-major number
TexelAt(uv, texSize) == (uv[2] \div 2) * texSize + (uv[1] \div 2)

----------------------------------------------------------------------------
(* Initial states: the app after the first render and its mount effects *)

Units(v) == <<v[1] * PosScale, v[2] * PosScale, v[3] * PosScale>>
VelUnits(v) == <<v[1] * PosScale * VelScale, v[2] * PosScale * VelScale,
                 v[3] * PosScale * VelScale>>

\* No vertex invocation of the rotate effect has run
InitNoRotation ==
  /\ rotBase = <<Zero3, Zero3>>
  /\ rotAxes = <<FALSE, FALSE, FALSE>>
  /\ rotAngle = <<1000, 0>>
  /\ rotTurbulence = 5
  /\ rotOut = <<>>

InitGestureStore ==
  /\ currentGesture = "none"
  /\ gestureEnabled = TRUE

InitNoRateLimit ==
  /\ requestCounts = <<>>
  /\ now = 0
  /\ rlMaxRequests = 1
  /\ rlWindowMs = 1
  /\ rlGranted = [k \in RateKeys |-> 0]
  /\ rlResult = <<>>

InitNoPath ==
  /\ pathInput = <<>>
  /\ pathOutput = NULL

InitOnTime ==
  frameGap = 0

InitNoResults ==
  trackerResults = <<>>

InitTargets ==
  /\ currentTextureIndex = 0
  /\ writtenIndex = -1
  /\ texturePhysicsIndex = -1
  /\ frameOps = <<>>

InitFloatOffset ==
  floatOffsetFresh = FALSE

InitNoGeometry ==
  /\ geoCount = 1
  /\ texCoords = <<>>
  /\ origTexels = <<>>

\* useAppStore initial state (computeShaders.ts 609-635); particleSettings
\* are rehydrated from the persisted store (725-735)
InitStore ==
  /\ currentEffect = "none"
  /\ effectIntensity = 500
  /\ transitionSpeed \in SpeedChoices
  /\ leftHand = NoHand
  /\ rightHand = NoHand
  /\ handEnabled = FALSE
  /\ gestureTransitionSpeed = 5
  /\ audioData = NoData
  /\ audioEnabled = FALSE
  /\ colorMode = "original"
  /\ lightingMode = "none"

\* ParticleSystem refs and uniforms (Scene.tsx 329-392, 485-528) after the
\* mount effects; the GPGPU initialisation either succeeded or failed
InitParticleSystem ==
  /\ prevColorMode = "original"
  /\ currentColorMode = colorMode
  /\ colorBlend = IF colorMode # "original" THEN 0 ELSE 1000
  /\ previousLightingMode = lightingMode
  /\ lightingTransition = 0
  /\ effectTransition = 0
  /\ previousEffect = "none"
  /\ previousEffectIntensity = effectIntensity
  /\ effectTransitionStage = "idle"
  /\ targetEffect = "none"
  /\ transitionProgress = 0
  /\ smoothLeftHand = Zero3
  /\ smoothRightHand = Zero3
  /\ gpuComputeRef \in {NULL, "ready"}
  /\ gpuVarsRef = IF gpuComputeRef = NULL THEN NULL ELSE "current"
  /\ gpuEnabled = (gpuComputeRef # NULL)
  /\ gpuLeaked = 0
  /\ uEffect = effectToIndex[currentEffect]
  /\ uEffectIntensity = effectIntensity
  /\ uLeftHand = Zero3
  /\ uRightHand = Zero3
  /\ uTransitionProgress = 0
  /\ uUseGPGPU = FALSE
  /\ texturePhysics = NULL
  /\ uAudio = [bass |-> 0, mid |-> 0, treble |-> 0, energy |-> 0]
  /\ frameTick = 0
  /\ gpuStepped = NULL

\* Scene after the first generateParticles run (Scene.tsx 51-92)
InitScene ==
  /\ sourceType = "default"
  /\ sourceData = NULL
  /\ countSetting \in CountChoices
  /\ currentData = DefaultParticles(countSetting)
  /\ targetData = NoData
  /\ previousSource = <<"default", NULL>>
  /\ pendingGen = {}
  /\ timerRemaining = 0
  /\ isLoading = FALSE
  /\ errorMsg = NULL

\* Physics textures as createTexture() leaves them, uniforms as assigned at
\* initialisation (Scene.tsx 774-809), for a texel out of reach of the hands
InitTexturesAtRest ==
  /\ shaderVersion \in {1, 2}
  /\ velocity = Zero3
  /\ displacement = Zero3
  /\ originalPos = Units(<<0, 0, 300>>)
  /\ physLeftHand = Zero3
  /\ physRightHand = Zero3
  /\ physHandRadius = 100
  /\ physRepulsion = 5
  /\ physAttraction = 5
  /\ physBass = 0
  /\ physGesture = 0
  /\ physFrames = 0
  /\ initialDisplacement = Zero3
  /\ lastClamped = FALSE

\* AudioAnalyzer is imported dynamically (layout.tsx 80): its refs as
\* created (part_003 11-18), its first effect run still due
InitAudioAnalyzer ==
  /\ audioRenderDue = TRUE
  /\ mountedRef = TRUE
  /\ analyserRef = FALSE
  /\ audioCleanupDue = FALSE
  /\ pendingOpen = 0
  /\ pendingClosed = 0
  /\ rafScheduled = 0
  /\ animationRefLive = FALSE

\* No shader invocation under examination
InitNoInvocation ==
  /\ normStage = "none"
  /\ normPos = Zero3
  /\ normHand = Zero3
  /\ normEffect = 0
  /\ normGesture = 0
  /\ normResult = Zero3
  /\ normZero = FALSE

InitApp ==
  /\ InitNoGeometry
  /\ InitFloatOffset
  /\ InitTargets
  /\ InitNoResults
  /\ InitOnTime
  /\ InitNoPath
  /\ InitNoRateLimit
  /\ InitGestureStore
  /\ InitNoRotation
  /\ InitStore /\ InitParticleSystem /\ InitScene /\ InitTexturesAtRest
  /\ InitAudioAnalyzer /\ InitNoInvocation

----------------------------------------------------------------------------
(* Effect transition machine *)

NextEffect == Frame \/ SetCurrentEffect \/ SetEffectIntensity \/ SetTransitionSpeed

InitEffect ==
  /\ InitApp
  /\ shaderVersion = 2
  /\ gpuComputeRef = "ready"
  /\ countSetting = 3

SpecEffect == InitEffect /\ [][NextEffect]_vars

\* The render loop calls useFrame on every animation frame: a frame is always
\* possible and is what flips frameTick, so frames keep happening.
RenderLoopTick == frameTick' = 1 - frameTick
SpecEffectFair == SpecEffect /\ WF_frameTick(RenderLoopTick)

----------------------------------------------------------------------------
(* Scene data flow with the frame loop *)

NextScene ==
  \/ Frame
  \/ SetSource
  \/ UpdateParticleCount
  \/ GenerationSettles
  \/ TimerFires

InitSceneFlow ==
  /\ InitApp
  /\ shaderVersion = 2
  /\ transitionSpeed = 20

SpecScene == InitSceneFlow /\ [][NextScene]_vars

----------------------------------------------------------------------------
(* Hand tracking with the frame loop *)

NextHand == Frame \/ SetHandPosition \/ UpdateHandSettings

InitHand ==
  /\ InitApp
  /\ transitionSpeed = 5
  /\ countSetting = 3

SpecHand == InitHand /\ [][NextHand]_vars

----------------------------------------------------------------------------
(* Audio analysis with the frame loop, physics in fallback mode *)

NextAudio ==
  \/ Frame
  \/ UpdateAudioSettings
  \/ AudioEffect
  \/ InitAudioSettles
  \/ Analyze

InitAudio ==
  /\ InitApp
  /\ shaderVersion = 2
  /\ transitionSpeed = 5
  /\ countSetting = 3
  /\ gpuComputeRef = NULL

SpecAudio == InitAudio /\ [][NextAudio]_vars

----------------------------------------------------------------------------
(* Shader invocations on chosen inputs *)

NextNormalize == VertexInvocation \/ VelocityInvocation

InitNormalize ==
  /\ InitNoGeometry
  /\ InitFloatOffset
  /\ InitTargets
  /\ InitNoResults
  /\ InitOnTime
  /\ InitNoPath
  /\ InitNoRateLimit
  /\ InitGestureStore
  /\ InitNoRotation
  /\ InitStore /\ InitParticleSystem /\ InitScene /\ InitTexturesAtRest
  /\ InitAudioAnalyzer
  /\ shaderVersion = 2
  /\ transitionSpeed = 5
  /\ countSetting = 3
  /\ gpuComputeRef = "ready"
  /\ normStage = "input"
  /\ normPos \in {Units(q) : q \in NormPositions}
  /\ normHand \in {Units(h) : h \in NormHands}
  /\ normEffect \in NormEffects
  /\ normGesture \in NormGestures
  /\ normResult = Zero3
  /\ normZero = FALSE

SpecNormalize == InitNormalize /\ [][NextNormalize]_vars

----------------------------------------------------------------------------
(* Hand force on chosen inputs, open hand *)

NextHandForce == HandForceInvocation

InitHandForce ==
  /\ InitNoGeometry
  /\ InitFloatOffset
  /\ InitTargets
  /\ InitNoResults
  /\ InitOnTime
  /\ InitNoPath
  /\ InitNoRateLimit
  /\ InitGestureStore
  /\ InitNoRotation
  /\ InitStore /\ InitParticleSystem /\ InitScene /\ InitAudioAnalyzer
  /\ transitionSpeed = 5
  /\ countSetting = 3
  /\ gpuComputeRef = "ready"
  /\ shaderVersion \in {1, 2}
  /\ velocity = Zero3
  /\ displacement = Zero3
  /\ originalPos = Zero3
  /\ physLeftHand = Zero3
  /\ physRightHand = Zero3
  /\ physHandRadius \in ForceRadii
  /\ physRepulsion \in {5, 10}
  /\ physAttraction = 5
  /\ physBass = 0
  /\ physGesture = 0
  /\ physFrames = 0
  /\ initialDisplacement = Zero3
  /\ lastClamped = FALSE
  /\ normStage = "input"
  /\ normPos \in {Units(q) : q \in ForcePositions}
  /\ normHand \in {Units(h) : h \in ForceHands}
  /\ normEffect = 0
  /\ normGesture = 1
  /\ normResult = Zero3
  /\ normZero = FALSE

SpecHandForce == InitHandForce /\ [][NextHandForce]_vars

----------------------------------------------------------------------------
(* The four transition progress scalars with the frame loop *)

NextProgress ==
  \/ Frame
  \/ SetCurrentEffect
  \/ SetColorMode
  \/ TimerFires

\* A text source was chosen after the mount and its particles installed as
\* the target; nothing has been drawn since
InitProgress ==
  /\ InitNoGeometry
  /\ InitFloatOffset
  /\ InitTargets
  /\ InitNoResults
  /\ InitOnTime
  /\ InitNoPath
  /\ InitNoRateLimit
  /\ InitGestureStore
  /\ InitNoRotation
  /\ InitStore /\ InitParticleSystem /\ InitTexturesAtRest
  /\ InitAudioAnalyzer /\ InitNoInvocation
  /\ shaderVersion = 2
  /\ gpuComputeRef = NULL
  /\ transitionSpeed = 20
  /\ countSetting = 3
  /\ sourceType = "text"
  /\ sourceData = "a"
  /\ targetData = SampledParticles("text", "a", countSetting)
  /\ currentData = Adjusted(DefaultParticles(countSetting), targetData)
  /\ previousSource = <<"text", "a">>
  /\ pendingGen = {}
  /\ timerRemaining = TimerDuration(transitionSpeed)
  /\ isLoading = FALSE
  /\ errorMsg = NULL

SpecProgress == InitProgress /\ [][NextProgress]_vars
SpecProgressFair == SpecProgress /\ WF_frameTick(RenderLoopTick)

----------------------------------------------------------------------------
(* Rotate effect on pairs of particles *)

NextRotate == RotateInvocation

InitRotate ==
  /\ InitNoGeometry
  /\ InitFloatOffset
  /\ InitTargets
  /\ InitNoResults
  /\ InitOnTime
  /\ InitNoPath
  /\ InitNoRateLimit
  /\ InitGestureStore
  /\ InitStore /\ InitParticleSystem /\ InitScene /\ InitTexturesAtRest
  /\ InitAudioAnalyzer /\ InitNoInvocation
  /\ transitionSpeed = 5
  /\ countSetting = 3
  /\ gpuComputeRef = NULL
  /\ shaderVersion = 2
  /\ rotBase \in {<<Units(pq[1]), Units(pq[2])>> :
                    pq \in {xy \in RotatePositions \X RotatePositions :
                              xy[1] # xy[2]}}
  /\ rotAxes \in BOOLEAN \X BOOLEAN \X BOOLEAN
  /\ rotAngle \in QuarterTurns
  /\ rotTurbulence \in TurbulenceChoices
  /\ rotOut = <<>>

SpecRotate == InitRotate /\ [][NextRotate]_vars

----------------------------------------------------------------------------
(* Gestures with the frame loop *)

NextGesture == Frame \/ SetCurrentGesture \/ SetGestureEnabled

InitGesture ==
  /\ InitApp
  /\ shaderVersion = 2
  /\ gpuComputeRef = "ready"
  /\ transitionSpeed = 5
  /\ countSetting = 3

SpecGesture == InitGesture /\ [][NextGesture]_vars

----------------------------------------------------------------------------
(* Rate limiter calls over time *)

NextRateLimit == CheckRateLimit \/ ClockTick

InitRateLimit ==
  /\ InitNoGeometry
  /\ InitFloatOffset
  /\ InitTargets
  /\ InitNoResults
  /\ InitOnTime
  /\ InitStore /\ InitParticleSystem /\ InitScene /\ InitTexturesAtRest
  /\ InitAudioAnalyzer /\ InitNoInvocation /\ InitNoRotation
  /\ InitGestureStore /\ InitNoPath
  /\ transitionSpeed = 5
  /\ countSetting = 3
  /\ gpuComputeRef = NULL
  /\ shaderVersion = 2
  /\ requestCounts = <<>>
  /\ now = 0
  /\ rlMaxRequests \in MaxRequestsChoices
  /\ rlWindowMs \in WindowChoices
  /\ rlGranted = [k \in RateKeys |-> 0]
  /\ rlResult = <<>>

SpecRateLimit == InitRateLimit /\ [][NextRateLimit]_vars

----------------------------------------------------------------------------
(* sanitizePath on every short path *)

NextSanitize == SanitizePath

InitSanitize ==
  /\ InitNoGeometry
  /\ InitFloatOffset
  /\ InitTargets
  /\ InitNoResults
  /\ InitOnTime
  /\ InitStore /\ InitParticleSystem /\ InitScene /\ InitTexturesAtRest
  /\ InitAudioAnalyzer /\ InitNoInvocation /\ InitNoRotation
  /\ InitGestureStore /\ InitNoRateLimit
  /\ transitionSpeed = 5
  /\ countSetting = 3
  /\ gpuComputeRef = NULL
  /\ shaderVersion = 2
  /\ pathInput \in Paths
  /\ pathOutput = NULL

SpecSanitize == InitSanitize /\ [][NextSanitize]_vars

----------------------------------------------------------------------------
(* Shape transition: frames, late frames and the promotion timer *)

NextPromotion ==
  \/ Frame
  \/ LateFrame
  \/ TimerFires
  \/ TimerFiresInGap
  \/ SetTransitionSpeed

SpecPromotion == InitProgress /\ [][NextPromotion]_vars

----------------------------------------------------------------------------
(* Hand tracker results *)

NextTracker == OnResults \/ SetGestureEnabled

SpecTracker == InitGesture /\ [][NextTracker]_vars

----------------------------------------------------------------------------
(* The frame loop with the render targets of the physics textures *)

NextTargets == FrameWithTargets \/ SetCurrentEffect

InitTargetsFlow ==
  /\ InitApp
  /\ shaderVersion = 2
  /\ transitionSpeed = 5
  /\ countSetting = 3

SpecTargets == InitTargetsFlow /\ [][NextTargets]_vars

----------------------------------------------------------------------------
(* Texture coordinates for every small particle count *)

NextGeometry == BuildGeometry \/ FillOriginalTexture

InitGeometry ==
  /\ InitStore /\ InitParticleSystem /\ InitScene /\ InitTexturesAtRest
  /\ InitAudioAnalyzer /\ InitNoInvocation /\ InitNoRotation
  /\ InitGestureStore /\ InitNoRateLimit /\ InitNoPath /\ InitOnTime
  /\ InitNoResults /\ InitTargets /\ InitFloatOffset
  /\ transitionSpeed = 5
  /\ countSetting = 3
  /\ gpuComputeRef = NULL
  /\ shaderVersion = 2
  /\ geoCount \in 1..MaxParticles
  /\ texCoords = <<>>
  /\ origTexels = <<>>

SpecGeometry == InitGeometry /\ [][NextGeometry]_vars

----------------------------------------------------------------------------
(* Physics alone *)

\* Frames of sustained hand / audio input with arbitrary frame deltas
PhysFrame ==
  /\ physFrames < MaxPhysFrames
  /\ \E dt \in {10, 30}, n \in NoiseVectors :
       Compute(VelocityUniforms, dt, n, VNeg(n))
  /\ physFrames' = physFrames + 1
  /\ UNCHANGED <<storeVars, effectVars, gpuVars, uniformVars, frameVars,
                 sceneVars, audioVars, normVars,
                 visualVars, rotVars, gestureVars, rateVars, pathVars, clockVars, trackerVars, targetVars, floatVars, geomVars>>

\* Frames at dt = 1/60 s
RestFrame ==
  /\ physFrames < MaxRestFrames
  /\ Compute(VelocityUniforms, 10, Zero3, Zero3)
  /\ physFrames' = physFrames + 1
  /\ UNCHANGED <<storeVars, effectVars, gpuVars, uniformVars, frameVars,
                 sceneVars, audioVars, normVars,
                 visualVars, rotVars, gestureVars, rateVars, pathVars, clockVars, trackerVars, targetVars, floatVars, geomVars>>

InitDisplacements == {<<0, 0, 0>>, <<100, 0, 0>>, <<-60, 80, 0>>, <<0, -3, 4>>}
InitVelocities == {<<0, 0, 0>>, <<400, 0, 0>>, <<-400, 400, 400>>, <<0, -40, 0>>}
HandPositions == {<<0, 0, 0>>, <<90, 0, 0>>, <<-50, 70, 10>>}
Gains == {0, 5, 10}

InitController ==
  /\ InitNoGeometry
  /\ InitFloatOffset
  /\ InitTargets
  /\ InitNoResults
  /\ InitOnTime
  /\ InitNoPath
  /\ InitNoRateLimit
  /\ InitGestureStore
  /\ InitNoRotation
  /\ InitStore /\ InitScene /\ InitParticleSystem
  /\ InitAudioAnalyzer /\ InitNoInvocation
  /\ transitionSpeed = 5
  /\ gpuComputeRef = "ready"
  /\ countSetting = 3

InitPhysics ==
  /\ InitController
  /\ shaderVersion \in {1, 2}
  /\ displacement \in {Units(d) : d \in InitDisplacements}
  /\ velocity \in {VelUnits(v) : v \in InitVelocities}
  /\ originalPos \in {Units(<<0, 0, 0>>), Units(<<50, 0, 0>>)}
  /\ physLeftHand \in {Units(h) : h \in HandPositions}
  /\ physRightHand = Zero3
  /\ physHandRadius = 100
  /\ physRepulsion = 10
  /\ physAttraction \in {5, 10}
  /\ physBass \in {0, 800}
  /\ physGesture = 0
  /\ physFrames = 0
  /\ initialDisplacement = displacement
  /\ lastClamped = FALSE

SpecPhysics == InitPhysics /\ [][PhysFrame]_vars

\* Nonzero initial displacements, long enough for 1% of their length to
\* lie above the fixed point resolution
RestDisplacements == {<<100, 0, 0>>, <<-60, 80, 0>>, <<0, -96, 28>>, <<48, 64, -60>>}

\* Rest: both hands absent, bass <= 0.01, any attractionForce in [0,1]
InitRest ==
  /\ InitController
  /\ shaderVersion \in {1, 2}
  /\ displacement \in {Units(d) : d \in RestDisplacements}
  /\ velocity = Zero3
  /\ originalPos = Units(<<50, 0, 0>>)
  /\ physLeftHand = Zero3
  /\ physRightHand = Zero3
  /\ physHandRadius = 100
  /\ physRepulsion = 5
  /\ physAttraction \in Gains
  /\ physBass \in {0, 10}
  /\ physGesture = 0
  /\ physFrames = 0
  /\ initialDisplacement = displacement
  /\ lastClamped = FALSE

SpecRest == InitRest /\ [][RestFrame]_vars

----------------------------------------------------------------------------
\* C1: after every position pass the displacement is no longer than the
\* maxDist of that pass (500 in the first shader, 150 in the second), for
\* any velocity, any frame delta and any number of frames of sustained force.
BoundedDisplacement ==
  physFrames > 0 => Length(displacement) <= MaxDisplacement * PosScale

\* a position pass that had to rescale, under a hand force and a bass pulse
BoundedDisplacementWitness ==
  /\ physFrames > 1
  /\ lastClamped
  /\ physLeftHand # Zero3
  /\ physBass > 10
  /\ Length(displacement) <= MaxDisplacement * PosScale

\* C2: at rest input (no hands, bass <= 0.01) and dt = 1/60 s the
\* displacement falls below 1% of its initial length within SettleFrames
\* frames and stays below it, for every attractionForce in [0,1].
SettleFrames == 600

ConvergesToRest ==
  physFrames >= SettleFrames =>
    100 * Length(displacement) < Length(initialDisplacement)

\* C3: once triggered, effectTransitionStage moves fadeOut -> showNone ->
\* fadeIn -> idle, one stage per frame at most, whatever the frame delta,
\* transitionSpeed and the effect / intensity changes requested meanwhile.
StageOrder ==
  {<<"idle", "fadeOut">>, <<"fadeOut", "showNone">>, <<"showNone", "fadeIn">>,
   <<"fadeIn", "idle">>}

EffectStagesInOrder ==
  [][effectTransitionStage' # effectTransitionStage =>
       <<effectTransitionStage, effectTransitionStage'>> \in StageOrder]_vars

\* a transition that ran to completion although another effect was
\* requested while it was in flight
EffectStagesInOrderWitness ==
  /\ effectTransitionStage = "idle"
  /\ previousEffect = "wave"
  /\ currentEffect = "float"
  /\ effectTransition = 1000

\* C4: with positive transitionSpeed and frame deltas a transition during
\* which the effect was changed again still reaches idle, and every frame
\* that runs in idle displays the selected effect at the selected intensity.
IdleShowsSelected ==
  /\ (effectTransitionStage # "idle") ~> (effectTransitionStage = "idle")
  /\ [][(frameTick' # frameTick /\ effectTransitionStage = "idle") =>
          (uEffect' = effectToIndex[currentEffect]
           /\ uEffectIntensity' = effectIntensity)]_vars

\* an idle frame after a transition to wave during which float was selected
IdleShowsSelectedWitness ==
  /\ effectTransitionStage = "idle"
  /\ previousEffect = "wave"
  /\ currentEffect = "float"
  /\ uEffect = effectToIndex["float"]
  /\ uEffectIntensity = effectIntensity

\* C5: while a shape transition is in flight (targetData non-null) a new
\* source result does not replace targetData and does not reset the shape
\* progress; the target stays until it is promoted.
SingleShapeTransition ==
  [][(targetData # NoData /\ targetData' # NoData) =>
       (targetData' = targetData /\ transitionProgress' >= transitionProgress)]_vars

\* C6: whenever ParticleSystem is given a target dataset, position, color,
\* targetPosition and targetColor have the same number of particles.
EqualAttributeLengths ==
  targetData # NoData =>
    /\ Len(Geometry.position) = Len(Geometry.color)
    /\ Len(Geometry.position) = Len(Geometry.targetPosition)
    /\ Len(Geometry.position) = Len(Geometry.targetColor)

\* C9: a failed GPGPU initialisation (constructor throws or init() returns
\* an error) leaves the engine disabled: every frame then sets uUseGPGPU to
\* false, and a frame sets uUseGPGPU to true exactly when it stepped a
\* successfully initialised compute instance.
FallbackOnInitFailure ==
  [][frameTick' # frameTick =>
       /\ uUseGPGPU' = (gpuStepped' = "ready")
       /\ gpuStepped' \in {NULL, "ready"}
       /\ (~gpuEnabled => ~uUseGPGPU')]_vars

\* a frame in fallback mode after an init() error that followed frames
\* stepped on a working instance
FallbackOnInitFailureWitness ==
  /\ texturePhysics = "ready"
  /\ gpuLeaked > 0
  /\ gpuComputeRef = NULL
  /\ ~gpuEnabled
  /\ ~uUseGPGPU
  /\ gpuStepped = NULL

\* C7: in any frame in which a hand is not tracked (position null or hand
\* tracking disabled) the hand position handed to the velocity pass and to
\* the material is the zero sentinel.
HandZeroedOnDisable ==
  [][frameTick' # frameTick =>
       /\ ~(leftHand # NoHand /\ handEnabled) =>
            (uLeftHand' = Zero3 /\ (gpuStepped' # NULL => physLeftHand' = Zero3))
       /\ ~(rightHand # NoHand /\ handEnabled) =>
            (uRightHand' = Zero3 /\ (gpuStepped' # NULL => physRightHand' = Zero3))]_vars

\* C8: once audio is disabled and the effect has run, the published bands
\* are zero and stay zero while audio stays disabled, whatever analysis
\* callbacks or pending initialisations run meanwhile.
SilentWhileDisabled ==
  (~audioEnabled /\ ~audioRenderDue) =>
    (Band("bass") = 0 /\ Band("mid") = 0 /\ Band("treble") = 0
     /\ Band("energy") = 0)

\* audio disabled after it was heard, an analysis callback still scheduled
SilentWhileDisabledWitness ==
  /\ ~audioEnabled
  /\ ~audioRenderDue
  /\ rafScheduled > 0
  /\ analyserRef
  /\ uAudio.bass > 0
  /\ Band("bass") = 0

\* C10: no shader invocation applies normalize to a zero-length vector.
NormalizeGuarded == ~normZero

\* C11: a hand at any position, the origin included, pushes every particle
\* with 0.01 < dist < handRadius with a nonzero force, and no particle with
\* dist >= handRadius; at dist 10 of radius 50 the falloff is 0.512.
HandForceWithinRadius ==
  normStage = "force" =>
    LET dist == Length(VSub(normPos, normHand))
    IN /\ (dist * 100 > PosScale /\ dist < physHandRadius * PosScale)
            => normResult # Zero3
       /\ dist >= physHandRadius * PosScale => normResult = Zero3

ProgressScalars ==
  <<transitionProgress, effectTransition, colorBlend, lightingTransition>>

DistSq(a, b) == Dot(VSub(a, b), VSub(a, b))

\* C13: under the rotate effect, for every combination of axes and every
\* angle, two particles are as far apart after the effect as their base
\* positions are, the turbulence offsets included; a quarter turn about Y
\* alone maps (x, y, z) to (z, y, -x).
RotatePreservesDistances ==
  rotOut # <<>> =>
    /\ DistSq(rotOut[1], rotOut[2]) = DistSq(rotBase[1], rotBase[2])
    /\ (rotAxes = <<FALSE, TRUE, FALSE>> /\ rotAngle = <<0, 1000>>) =>
         \A i \in 1..2 :
           rotOut[i] = <<rotBase[i][3], rotBase[i][2], -rotBase[i][1]>>

\* The promotion timer replaced currentData by the target and emptied the slot
Promotion ==
  /\ targetData # NoData
  /\ targetData' = NoData
  /\ currentData' = targetData
  /\ UNCHANGED <<pendingGen, errorMsg, isLoading>>

\* C14: when the transition completes the target becomes current and the
\* slot is empty, and every particle's base position and colour drawn right
\* after the promotion are those drawn right before it; a target equal to
\* the current dataset shows no change at any progress.
PromotionInvisible ==
  /\ [][Promotion => /\ RenderedPositions' = RenderedPositions
                     /\ RenderedColors' = RenderedColors]_vars
  /\ [](targetData = currentData =>
          RenderedPositions = [i \in 1..Count(currentData) |->
                                 <<currentData.pos[i]>>])

\* C15: every GPU computation renderer that was created has been disposed,
\* except the single instance in use: at most one is live at any time.
RenderersDisposed ==
  /\ gpuLeaked = 0
  /\ gpuLeaked + (IF gpuComputeRef # NULL THEN 1 ELSE 0) <= 1

\* C16: once the generation that a change of the configured particle count
\* started has settled, the dataset installed last (the target, or current
\* when there is no target) has the configured count (or the number of
\* pixels the source yields, when that is smaller), also when the source did
\* not change and for the default formation.
CountChangeInstalled ==
  pendingGen = {} =>
    LET installed == IF targetData # NoData THEN targetData ELSE currentData
    IN Count(installed) \in
         {countSetting,
          IF sourceType = "default" \/ sourceData = NULL
            THEN countSetting
            ELSE Min(countSetting, ValidPixels(sourceData))}

\* C17: when a generation fails, the error message is set, the default
\* formation of the count that generation was started with becomes current,
\* there is no target and the loading flag is false; current data is never
\* missing and every dataset has as many colours as positions.
FailureAbsorbed ==
  /\ [][(errorMsg = NULL /\ errorMsg' # NULL) =>
          /\ \E g \in pendingGen \ pendingGen' :
               currentData' = DefaultParticles(g.count)
          /\ targetData' = NoData
          /\ isLoading' = FALSE]_vars
  /\ [](/\ currentData # NoData
        /\ Len(currentData.pos) = Len(currentData.col)
        /\ targetData # NoData => Len(targetData.pos) = Len(targetData.col))
FailureAbsorbedWitness ==
  /\ errorMsg # NULL
  /\ currentData = DefaultParticles(countSetting)
  /\ targetData = NoData
  /\ ~isLoading
  /\ sourceType = "image"

\* C18: the force a frame's velocity pass applies to a particle inside the
\* hand radius is the one of the gesture the tracker reported last (open
\* repels, closed attracts, pinch orbits, peace bursts, point and none apply
\* nothing) while gesture mode is enabled, and the repelling push while it is
\* disabled.
GestureSelectsForce ==
  [][(frameTick' # frameTick /\ gpuStepped' # NULL) =>
       AppliedProbeForce' =
         ProbeForce(IF gestureEnabled THEN gestureToIndex[currentGesture]
                                      ELSE gestureToIndex["open"])]_vars

\* C19: for each key at most maxRequests calls of a window return true; a
\* call for a key without a window, or after its resetTime, returns true; a
\* call changes the record of no other key.
RateLimitHolds ==
  /\ [](\A k \in RateKeys : rlGranted[k] <= rlMaxRequests)
  /\ [][\A k \in RateKeys :
          (rlResult' # rlResult /\ rlResult'[1] = k) =>
            /\ (k \notin DOMAIN requestCounts
                  \/ now > requestCounts[k].resetTime) => rlResult'[2]
            /\ \A j \in RateKeys \ {k} :
                 /\ rlGranted'[j] = rlGranted[j]
                 /\ (j \in DOMAIN requestCounts =>
                       requestCounts'[j] = requestCounts[j])]_vars

\* C20: the result of sanitizePath has no ".." in it, does not begin with
\* '/' or '\', holds none of < > : " | ? *, and sanitizing it again changes
\* nothing.
SanitizedPathClean ==
  pathOutput # NULL =>
    /\ \A i \in 1..(Len(pathOutput) - 1) :
         ~(pathOutput[i] = "." /\ pathOutput[i + 1] = ".")
    /\ pathOutput # <<>> => pathOutput[1] \notin {"/", "\\"}
    /\ \A i \in 1..Len(pathOutput) : pathOutput[i] \notin SpecialChars
    /\ sanitizePath(pathOutput) = pathOutput

\* C21: an effect change requested while a transition is in flight leaves
\* the target of that transition alone and is taken up by a new transition
\* afterwards, so the displayed effect never goes from one effect straight
\* to a different effect in the next frame: a frame displaying 'none' lies
\* between them.
DeferredEffectChange ==
  /\ [][effectTransitionStage # "idle" => targetEffect' = targetEffect]_vars
  /\ [][(uEffect # effectToIndex["none"] /\ uEffect' # effectToIndex["none"])
          => uEffect' = uEffect]_vars

\* C22: the target dataset becomes the current one, and the target slot is
\* cleared, only in a state where the shape transition progress has reached
\* 1, for every interleaving of the animation frames with the completion
\* timer, also when frames come late or transitionSpeed changes in flight.
PromotedAtFullProgress ==
  [][Promotion => transitionProgress = 1000]_vars

\* C23: when an asynchronous generation settles for a source that is no
\* longer the selected one (another source was selected before it
\* resolved), its result is discarded: the installed current / target
\* formation and previousSourceRef stay those of the most recent selection.
StaleResultDiscarded ==
  [][\A g \in pendingGen :
       (g \notin pendingGen' /\ <<g.type, g.data>> # <<sourceType, sourceData>>)
         => UNCHANGED <<currentData, targetData, previousSource>>]_vars

\* C24: after every results callback of the hand tracker a stored hand
\* position is non-null only if that hand is among the hands of the most
\* recent results, also when the other hand is still detected.
AbsentHandCleared ==
  /\ leftHand # NoHand =>
       \E i \in 1..Len(trackerResults) : trackerResults[i].label = "Left"
  /\ rightHand # NoHand =>
       \E i \in 1..Len(trackerResults) : trackerResults[i].label = "Right"

Position(ops, op) == CHOOSE i \in 1..Len(ops) : ops[i] = op

\* C26: in every frame with the physics engine enabled both compute passes
\* are issued before texturePhysics is assigned, and the uniform then refers
\* to the displacement render target written in this frame's compute step,
\* never to the one the next compute step will write into.
PhysicsTextureCurrent ==
  frameOps # <<>> =>
    /\ {"texturePosition", "textureVelocity", "texturePhysics"}
         = {frameOps[i] : i \in 1..Len(frameOps)}
    /\ Position(frameOps, "texturePosition") < Position(frameOps, "texturePhysics")
    /\ Position(frameOps, "textureVelocity") < Position(frameOps, "texturePhysics")
    /\ texturePhysicsIndex = writtenIndex
    /\ texturePhysicsIndex # 1 - currentTextureIndex

\* a second physics frame: the uniform is back on render target 0
PhysicsTextureCurrentWitness ==
  /\ frameOps # <<>>
  /\ gpuStepped # NULL
  /\ uUseGPGPU
  /\ texturePhysicsIndex = 0
  /\ writtenIndex = 0

\* C27: at the end of every frame in which a hand is present and hand
\* tracking is enabled, the material's hand uniform (uLeftHand / uRightHand)
\* is the smoothed hand position computed in that frame, not the raw
\* tracker position.
HandUniformSmoothed ==
  [][frameTick' # frameTick =>
       /\ (leftHand # NoHand /\ handEnabled) => uLeftHand' = smoothLeftHand'
       /\ (rightHand # NoHand /\ handEnabled) => uRightHand' = smoothRightHand']_vars

\* C28: whenever the displayed effect is float at nonzero displayed
\* intensity, also in the fadeOut frames that lead away from float, the
\* shared offset uFloatOffset has been computed from the time of that
\* frame.
FloatOffsetFollowsClock ==
  (uEffect = effectToIndex["float"] /\ uEffectIntensity > 0) => floatOffsetFresh

\* C29: for every particle count N >= 1 with S = ceil(sqrt(N)) the texture
\* coordinates of particles 0 .. N-1 are pairwise distinct, each is the
\* centre of a texel of the S x S texture with both components strictly
\* between 0 and 1, and particle i's texel is the texel (i mod S,
\* floor(i / S)) into which the initialiser wrote particle i.
TexCoordsAddressOwnTexel ==
  origTexels # <<>> =>
    LET S == TexSize(geoCount)
    IN /\ Len(origTexels) = S * S
       /\ \A i, j \in 1..geoCount : i # j => texCoords[i] # texCoords[j]
       /\ \A i \in 1..geoCount :
            /\ \A c \in 1..2 :
                 /\ 0 < texCoords[i][c] /\ texCoords[i][c] < 2 * S
                 /\ texCoords[i][c] % 2 = 1
            /\ TexelAt(texCoords[i], S) = ((i - 1) \div S) * S + ((i - 1) % S)
            /\ origTexels[TexelAt(texCoords[i], S) + 1] = i - 1

\* a count that is no perfect square: the last row of the texture is partly inert
TexCoordsAddressOwnTexelWitness ==
  /\ geoCount = 5
  /\ Len(texCoords) = 5
  /\ Len(origTexels) = 9
  /\ origTexels[9] = -1

\* A generation installed the particles of a non-default source
NonDefaultInstalled ==
  /\ previousSource' # previousSource
  /\ previousSource'[1] # "default"
  /\ currentData # NoData
  /\ targetData' # NoData

\* C30: when a non-default source yields a particle count different from
\* that of the current set, the current set is replaced by one of exactly
\* the new count in which the particles both sets have keep their current
\* position and colour and the additional ones start in the cube around the
\* origin in the new set's colour, and the target is the new result, so
\* that current and target have equal lengths.
CountAdjustedOnInstall ==
  [][(NonDefaultInstalled /\ Count(targetData') # Count(currentData)) =>
       /\ Count(currentData') = Count(targetData')
       /\ targetData'.pos[1][1] = previousSource'[1]
       /\ \A i \in 1..Count(targetData') :
            IF i <= Count(currentData)
              THEN /\ currentData'.pos[i] = currentData.pos[i]
                   /\ currentData'.col[i] = currentData.col[i]
              ELSE /\ currentData'.pos[i] = <<"center", i>>
                   /\ currentData'.col[i] = targetData'.col[i]]_vars

====
